---- MODULE Spec2Model ----
(***************************************************************************)
(* Model of tux-graph's adjacency-list graph arena                         *)
(* (src/src/adjacency_list/graph.rs, node.rs, edge.rs, src/src/utils.rs).  *)
(*                                                                         *)
(* Ids are 0-based as in the source; TLA+ sequences are 1-based, so slot   *)
(* id i of a Vec is element i+1 of the sequence that models it.            *)
(* A HashSet is a set; wherever the source iterates a HashSet and the      *)
(* result depends on the iteration order, the model chooses the order.     *)
(***************************************************************************)
EXTENDS Integers, Sequences, FiniteSets, TLC

(***************************************************************************)
(* Bounds of the model.                                                    *)
(***************************************************************************)
MaxNodes == 2      \* the node Vec grows to at most this many slots
MaxEdges == 2      \* the edge Vec grows to at most this many slots
MaxValue == 1      \* payloads T are 1..MaxValue
MaxWeight == 0     \* weights are 0..MaxWeight

Values == 1..MaxValue
Weights == 0..MaxWeight

\* The payloads of the callers that compare graphs.
MaxPayload == 2
Payloads == 1..MaxPayload

\* The graphs written in the graph DSL: each node has a payload of its own,
\* so there are at most MaxDeclaredNodes nodes.
MaxDeclaredNodes == 2
MaxDeclaredEdges == 2
MaxDeclaredWeight == 1
DeclaredPayloads == 1..MaxDeclaredNodes
DeclaredWeights == 0..MaxDeclaredWeight

\* The source graphs of kruskal_find_mst: node i carries the payload i.
MaxSourceNodes == 3
MaxSourceEdges == 3
MaxSourceWeight == 2
SourceWeights == 1..MaxSourceWeight

\* The graphs with tombstones and with several components that the queries
\* are called on: every alive node carries a payload of its own.
MaxArenaNodes == 4
MaxArenaEdges == 2
MaxArenaWeight == 2
ArenaPayloads == 1..MaxArenaNodes
ArenaWeights == 1..MaxArenaWeight

\* The source graphs with self-loops: at most MaxLoopNodes nodes, each with
\* a payload of its own, and MaxLoopEdges edge slots with weights from
\* LoopWeights.
MaxLoopNodes == 3
MaxLoopEdges == 2
MaxLoopWeight == 2
LoopWeights == 1..MaxLoopWeight

\* The graphs whose integrity is checked: at most MaxCheckNodes node slots
\* and MaxCheckEdges edge slots; the ids written directly into a node or an
\* edge go one beyond the last slot.
MaxCheckNodes == 1
MaxCheckEdges == 2

\* The graphs that are called with stale ids: at most MaxStaleNodes node
\* slots and MaxStaleEdges edge slots; the caller stops removing when the
\* free queue of the nodes holds MaxStaleQueue ids.
MaxStaleNodes == 2
MaxStaleEdges == 1
MaxStaleQueue == 3

\* The graphs whose slots are freed and reused: at most MaxReuseNodes node
\* slots and MaxReuseEdges edge slots, the payloads from ReusePayloads.
MaxReuseNodes == 3
MaxReuseEdges == 1
MaxReusePayload == 1
ReusePayloads == 1..MaxReusePayload

\* The graphs that are searched: at most MaxSearchNodes node slots and
\* MaxSearchEdges edge slots, every alive node with a payload of its own.
MaxSearchNodes == 3
MaxSearchEdges == 2
SearchPayloads == 1..MaxSearchNodes

(***************************************************************************)
(* Program constants.                                                      *)
(***************************************************************************)
\* usize::MAX, the id written into a cleared edge.  TLC integers are 32 bit
\* wide; the code only compares this value with slot indices, all of which
\* are far below it.
USIZE_MAX == 2147483647
\* Option::None of a node's payload.
None == 0

VARIABLES nodes, edges, empty_edge_slots, empty_node_slots, last

vars == <<nodes, edges, empty_edge_slots, empty_node_slots, last>>

\* The AdjListGraph value held in the state variables.
G == [nodes |-> nodes, edges |-> edges,
      empty_edge_slots |-> empty_edge_slots,
      empty_node_slots |-> empty_node_slots]

\* AdjListGraph::default()
Default == [nodes |-> <<>>, edges |-> <<>>,
            empty_edge_slots |-> <<>>, empty_node_slots |-> <<>>]

(***************************************************************************)
(* utils.rs                                                                *)
(***************************************************************************)
Range(s) == {s[i] : i \in DOMAIN s}

\* slice::binary_search(item).is_ok() on a sorted slice, as a bisection of
\* the index window lo..hi (1-based, hi exclusive).
RECURSIVE Bisect(_, _, _, _)
Bisect(slice, item, lo, hi) ==
    IF lo >= hi THEN FALSE
    ELSE LET mid == lo + ((hi - lo) \div 2) IN
         IF slice[mid] = item THEN TRUE
         ELSE IF slice[mid] < item THEN Bisect(slice, item, mid + 1, hi)
         ELSE Bisect(slice, item, lo, mid)

binary_search_contains(slice, item) == Bisect(slice, item, 1, Len(slice) + 1)

\* Vec::sort on ids: ascending, duplicates kept.
RECURSIVE InsertSorted(_, _)
InsertSorted(s, x) ==
    IF s = <<>> THEN <<x>>
    ELSE IF x <= Head(s) THEN <<x>> \o s
    ELSE <<Head(s)>> \o InsertSorted(Tail(s), x)

RECURSIVE Sort(_)
Sort(q) == IF q = <<>> THEN <<>> ELSE InsertSorted(Sort(Tail(q)), Head(q))

(***************************************************************************)
(* edge.rs                                                                 *)
(***************************************************************************)
Edge_new(weight, node_a, node_b) ==
    [weight |-> weight, node_a |-> node_a, node_b |-> node_b]

\* Edge::clear that resets the weight and node_a only.
Edge_clear_keeps_node_b == [weight |-> 0, node_a |-> USIZE_MAX, node_b |-> 0]

Edge_clear == [weight |-> 0, node_a |-> USIZE_MAX, node_b |-> USIZE_MAX]

(***************************************************************************)
(* node.rs                                                                 *)
(***************************************************************************)
Node_new(value) == [value |-> value, edges |-> {}]

\* Node::clear leaves this node behind (and returns the old value).
Node_clear == [value |-> None, edges |-> {}]

\* What Node::clear returns: value.take().
Node_clear_returns(node) == node.value

Node_clear_and_set(value) == [value |-> value, edges |-> {}]

\* Node::remove_edge that clears the node instead.
Node_remove_edge_clears(node, edge) == [value |-> None, edges |-> {}]

Node_remove_edge(node, edge) == [node EXCEPT !.edges = @ \ {edge}]

(***************************************************************************)
(* Reading the arena.                                                      *)
(***************************************************************************)
NodeIds(g) == 0..(Len(g.nodes) - 1)
EdgeIds(g) == 0..(Len(g.edges) - 1)

\* A node slot is alive when it holds a payload, an edge slot when it has
\* not been cleared.
AliveNodes(g) == {n \in NodeIds(g) : g.nodes[n + 1].value # None}
AliveEdges(g) == {e \in EdgeIds(g) : g.edges[e + 1].node_a # USIZE_MAX}

number_of_nodes(g) == Len(g.nodes) - Len(g.empty_node_slots)
number_of_edges(g) == Len(g.edges) - Len(g.empty_edge_slots)
has_dead_nodes(g) == g.empty_node_slots # <<>>
has_dead_edges(g) == g.empty_edge_slots # <<>>

\* The scan comparing b with node_b only.
ConnectConflicts_node_b_only(g, a, b) ==
    {e \in g.nodes[a + 1].edges : g.edges[e + 1].node_b = b}

\* The edges the scan of connect_nodes_with_weight stops at: the edges of
\* a's incident set that have b as an endpoint.
ConnectConflicts(g, a, b) ==
    {e \in g.nodes[a + 1].edges :
        g.edges[e + 1].node_a = b \/ g.edges[e + 1].node_b = b}

is_node_connected_to_node(g, node_a, node_b) ==
    \E edge_id \in g.nodes[node_a + 1].edges :
        g.edges[edge_id + 1].node_a = node_b \/ g.edges[edge_id + 1].node_b = node_b

is_node_connected_to_itself(g, node) == is_node_connected_to_node(g, node, node)

\* connected_nodes that always reports node_b.
connected_nodes_always_node_b(g, node) ==
    [edge_id \in g.nodes[node + 1].edges |-> g.edges[edge_id + 1].node_b]

\* connected_nodes: one entry per incident edge (the Vec lists these entries
\* in the set's iteration order).
connected_nodes(g, node) ==
    [edge_id \in g.nodes[node + 1].edges |->
        IF g.edges[edge_id + 1].node_a = node
        THEN g.edges[edge_id + 1].node_b
        ELSE g.edges[edge_id + 1].node_a]

(***************************************************************************)
(* Mutators, as functions from a graph to the graph after the call.        *)
(***************************************************************************)
\* add_node that returns the back of the free queue.
add_node_id_takes_back(g) ==
    IF g.empty_node_slots # <<>>
    THEN g.empty_node_slots[Len(g.empty_node_slots)]
    ELSE Len(g.nodes)

\* add_node: the id it returns.
add_node_id(g) ==
    IF g.empty_node_slots # <<>> THEN Head(g.empty_node_slots) ELSE Len(g.nodes)

\* add_node that reads the front of the free queue without popping it.
add_node_keeps_slot_queued(g, value) ==
    IF g.empty_node_slots # <<>>
    THEN [g EXCEPT !.nodes[Head(g.empty_node_slots) + 1] = Node_clear_and_set(value)]
    ELSE [g EXCEPT !.nodes = Append(@, Node_new(value))]

add_node(g, value) ==
    IF g.empty_node_slots # <<>>
    THEN [g EXCEPT !.empty_node_slots = Tail(@),
                   !.nodes[Head(g.empty_node_slots) + 1] = Node_clear_and_set(value)]
    ELSE [g EXCEPT !.nodes = Append(@, Node_new(value))]

\* connect_nodes_with_weight after the scan found no edge: the id of the
\* new edge and the graph with it.
new_edge_id(g) ==
    IF g.empty_edge_slots # <<>> THEN Head(g.empty_edge_slots) ELSE Len(g.edges)

insert_edge(g, a, b, weight) ==
    LET id == new_edge_id(g)
        es == IF g.empty_edge_slots # <<>>
              THEN [g.edges EXCEPT ![id + 1] = Edge_new(weight, a, b)]
              ELSE Append(g.edges, Edge_new(weight, a, b))
        n1 == [g.nodes EXCEPT ![a + 1].edges = @ \cup {id}]
        n2 == [n1 EXCEPT ![b + 1].edges = @ \cup {id}]
    IN [g EXCEPT !.edges = es,
                 !.empty_edge_slots = IF @ # <<>> THEN Tail(@) ELSE @,
                 !.nodes = n2]

\* remove_edge that takes the id out of node_a's incident set only.
remove_edge_forgets_node_b(g, edge) ==
    LET node_a == g.edges[edge + 1].node_a
        n1 == [g.nodes EXCEPT ![node_a + 1] = Node_remove_edge(@, edge)]
    IN [g EXCEPT !.nodes = n1,
                 !.edges[edge + 1] = Edge_clear,
                 !.empty_edge_slots = Append(@, edge)]

remove_edge(g, edge) ==
    LET node_a == g.edges[edge + 1].node_a
        node_b == g.edges[edge + 1].node_b
        n1 == [g.nodes EXCEPT ![node_a + 1] = Node_remove_edge(@, edge)]
        n2 == [n1 EXCEPT ![node_b + 1] = Node_remove_edge(@, edge)]
    IN [g EXCEPT !.nodes = n2,
                 !.edges[edge + 1] = Edge_clear,
                 !.empty_edge_slots = Append(@, edge)]

\* The loop of remove_node over the taken incident set, in the order `order`.
RECURSIVE remove_edges_in_order(_, _)
remove_edges_in_order(g, order) ==
    IF order = <<>> THEN g
    ELSE remove_edges_in_order(remove_edge(g, Head(order)), Tail(order))

\* The orders in which a HashSet can be iterated.
Orders(S) ==
    {o \in [1..Cardinality(S) -> S] : \A i, j \in DOMAIN o : i # j => o[i] # o[j]}

\* remove_node that tombstones the node without removing its edges.
remove_node_without_cascade(g, node, order) ==
    [g EXCEPT !.empty_node_slots = Append(@, node),
              !.nodes[node + 1] = Node_clear]

remove_node(g, node, order) ==
    LET taken == [g EXCEPT !.nodes[node + 1].edges = {}]
        g1 == remove_edges_in_order(taken, order)
    IN [g1 EXCEPT !.empty_node_slots = Append(@, node),
                  !.nodes[node + 1] = Node_clear]

\* What remove_node returns: what clearing the node returns, after the loop.
remove_node_returns(g, node, order) ==
    LET taken == [g EXCEPT !.nodes[node + 1].edges = {}]
    IN Node_clear_returns(remove_edges_in_order(taken, order).nodes[node + 1])

(***************************************************************************)
(* Compaction.                                                             *)
(***************************************************************************)
\* replace_node_edges that removes the old id and inserts nothing.
replace_node_edges_no_insert(ns, node, old_index_as_edge_id, new_index) ==
    [ns EXCEPT ![node + 1].edges = @ \ {old_index_as_edge_id}]

\* replace_node_edges that inserts the new id and leaves the old id in the
\* set.
replace_node_edges_keeps_old(ns, node, old_index_as_edge_id, new_index) ==
    IF old_index_as_edge_id \in ns[node + 1].edges
    THEN [ns EXCEPT ![node + 1].edges = @ \cup {new_index}]
    ELSE ns

\* The closure replace_node_edges of remove_dead_edges, on the node Vec.
replace_node_edges(ns, node, old_index_as_edge_id, new_index) ==
    IF old_index_as_edge_id \in ns[node + 1].edges
    THEN [ns EXCEPT ![node + 1].edges = (@ \ {old_index_as_edge_id}) \cup {new_index}]
    ELSE ns

\* The loop of remove_dead_edges from slot old_index on; es is the edge Vec
\* being read, sorted the sorted free slots, ns the node Vec being updated
\* and new_edges the Vec being built.  Yields <<ns, new_edges>>.
RECURSIVE dead_edges_loop(_, _, _, _, _, _)
dead_edges_loop(es, sorted, first_index, old_index, ns, new_edges) ==
    IF old_index >= Len(es) THEN <<ns, new_edges>>
    ELSE LET edge == es[old_index + 1] IN
         IF old_index < first_index
         THEN dead_edges_loop(es, sorted, first_index, old_index + 1,
                              ns, Append(new_edges, edge))
         ELSE IF binary_search_contains(sorted, old_index)
         THEN dead_edges_loop(es, sorted, first_index, old_index + 1, ns, new_edges)
         ELSE LET new_index == Len(new_edges)
                  n1 == replace_node_edges(ns, edge.node_a, old_index, new_index)
                  n2 == replace_node_edges(n1, edge.node_b, old_index, new_index)
              IN dead_edges_loop(es, sorted, first_index, old_index + 1,
                                 n2, Append(new_edges, edge))

\* remove_dead_edges that leaves the free queue as it was.
remove_dead_edges_keeps_queue(g) ==
    LET sorted == Sort(g.empty_edge_slots)
        first_index == IF sorted = <<>> THEN USIZE_MAX ELSE sorted[1]
        r == dead_edges_loop(g.edges, sorted, first_index, 0, g.nodes, <<>>)
    IN [g EXCEPT !.nodes = r[1], !.edges = r[2]]

remove_dead_edges(g) ==
    LET sorted == Sort(g.empty_edge_slots)
        first_index == IF sorted = <<>> THEN USIZE_MAX ELSE sorted[1]
        r == dead_edges_loop(g.edges, sorted, first_index, 0, g.nodes, <<>>)
    IN [g EXCEPT !.nodes = r[1], !.edges = r[2], !.empty_edge_slots = <<>>]

\* The inner loop of remove_dead_nodes that leaves the endpoints as they are.
rewrite_endpoints_keeps_old(es, incident, old_index, new_index) == es

\* The inner loop of remove_dead_nodes: every edge of the node's incident
\* set gets the endpoint fields that equal old_index set to new_index.
rewrite_endpoints(es, incident, old_index, new_index) ==
    [i \in DOMAIN es |->
        IF (i - 1) \in incident
        THEN [es[i] EXCEPT
                !.node_a = IF @ = old_index THEN new_index ELSE @,
                !.node_b = IF @ = old_index THEN new_index ELSE @]
        ELSE es[i]]

\* The loop of remove_dead_nodes from slot old_index on; ns is the node Vec
\* being read, es the edge Vec being updated, new_nodes the Vec being built.
\* Yields <<new_nodes, es>>.
RECURSIVE dead_nodes_loop(_, _, _, _, _, _)
dead_nodes_loop(ns, sorted, first_index, old_index, es, new_nodes) ==
    IF old_index >= Len(ns) THEN <<new_nodes, es>>
    ELSE LET node == ns[old_index + 1] IN
         IF old_index < first_index
         THEN dead_nodes_loop(ns, sorted, first_index, old_index + 1,
                              es, Append(new_nodes, node))
         ELSE IF binary_search_contains(sorted, old_index)
         THEN dead_nodes_loop(ns, sorted, first_index, old_index + 1, es, new_nodes)
         ELSE LET new_index == Len(new_nodes) IN
              dead_nodes_loop(ns, sorted, first_index, old_index + 1,
                              rewrite_endpoints(es, node.edges, old_index, new_index),
                              Append(new_nodes, node))

\* remove_dead_nodes that moves the nodes without their incident sets.
remove_dead_nodes_drops_incident_sets(g) ==
    LET sorted == Sort(g.empty_node_slots)
        first_index == IF sorted = <<>> THEN USIZE_MAX ELSE sorted[1]
        r == dead_nodes_loop(g.nodes, sorted, first_index, 0, g.edges, <<>>)
    IN [g EXCEPT !.nodes = [i \in DOMAIN r[1] |-> [r[1][i] EXCEPT !.edges = {}]],
                 !.edges = r[2], !.empty_node_slots = <<>>]

remove_dead_nodes(g) ==
    LET sorted == Sort(g.empty_node_slots)
        first_index == IF sorted = <<>> THEN USIZE_MAX ELSE sorted[1]
        r == dead_nodes_loop(g.nodes, sorted, first_index, 0, g.edges, <<>>)
    IN [g EXCEPT !.nodes = r[1], !.edges = r[2], !.empty_node_slots = <<>>]

remove_dead_values(g) ==
    LET g1 == IF g.empty_edge_slots # <<>> THEN remove_dead_edges(g) ELSE g
    IN IF g1.empty_node_slots # <<>> THEN remove_dead_nodes(g1) ELSE g1

(***************************************************************************)
(* Graph equality (PartialEq): every alive node of `self` must have a     *)
(* node of equal payload in `other` whose incident edges match.            *)
(***************************************************************************)
is_node_empty(g, node_id) == node_id \in Range(g.empty_node_slots)

\* node_value_eq that does not look at the payloads once both are there.
node_value_eq_ignores_payload(self, other) ==
    ~(self.value = None \/ other.value = None)

\* False as soon as one of the two slots has no payload.
node_value_eq(self, other) ==
    IF self.value = None \/ other.value = None
    THEN FALSE
    ELSE self.value = other.value

\* Edge::node_values: the two node slots an edge refers to.
node_values(edge, graph) ==
    <<graph.nodes[edge.node_a + 1], graph.nodes[edge.node_b + 1]>>

\* The index of the first slot of g whose payload equals the node's, or
\* USIZE_MAX when there is none.
find_equivalent_node_value(g, node) ==
    LET found == {i \in NodeIds(g) : node_value_eq(node, g.nodes[i + 1])}
    IN IF found = {} THEN USIZE_MAX
       ELSE CHOOSE i \in found : \A j \in found : i <= j

\* The closure's weight test reads the weight of the other graph's edge on
\* both sides: the inner `edge` shadows the edge of self_graph.
weights_differ(self_edge, other_edge) == other_edge.weight # other_edge.weight

\* The closure's endpoint test: both alternatives compare node_a with node_a
\* and node_b with node_b.
endpoints_match(self_edge, self_graph, other_edge, other_graph) ==
    LET s == node_values(self_edge, self_graph)
        o == node_values(other_edge, other_graph)
    IN \/ node_value_eq(s[1], o[1]) /\ node_value_eq(s[2], o[2])
       \/ node_value_eq(s[1], o[1]) /\ node_value_eq(s[2], o[2])

are_nodes_truly_equal(self, self_graph, other_node, other_graph) ==
    IF Cardinality(self.edges) # Cardinality(other_node.edges)
    THEN FALSE
    ELSE \A e \in self.edges :
            \E edge_id \in other_node.edges :
                LET self_edge == self_graph.edges[e + 1]
                    other_edge == other_graph.edges[edge_id + 1]
                IN /\ ~weights_differ(self_edge, other_edge)
                   /\ endpoints_match(self_edge, self_graph,
                                      other_edge, other_graph)

\* self == other
eq(self, other) ==
    \A index \in NodeIds(self) :
        \/ is_node_empty(self, index)
        \/ LET equivalent_item ==
                   find_equivalent_node_value(other, self.nodes[index + 1])
           IN /\ equivalent_item # USIZE_MAX
              /\ are_nodes_truly_equal(self.nodes[index + 1], self,
                                       other.nodes[equivalent_item + 1],
                                       other)

\* #[derive(Clone)]: a copy of the four fields.
clone(g) ==
    [nodes |-> [i \in DOMAIN g.nodes |-> g.nodes[i]],
     edges |-> [i \in DOMAIN g.edges |-> g.edges[i]],
     empty_edge_slots |-> g.empty_edge_slots,
     empty_node_slots |-> g.empty_node_slots]

(***************************************************************************)
(* The persisted form (serde).                                             *)
(***************************************************************************)
\* Serialize that refuses only a graph with tombstoned edges.
serialize_checks_edges_only(g) ==
    IF has_dead_edges(g)
    THEN [tag |-> "Err", nodes |-> <<>>, edges |-> <<>>]
    ELSE [tag |-> "Ok", nodes |-> g.nodes, edges |-> g.edges]

\* Serialize::serialize: an error for a graph with tombstones, else the
\* struct of the two fields "nodes" and "edges".
serialize(g) ==
    IF has_dead_edges(g) \/ has_dead_nodes(g)
    THEN [tag |-> "Err", nodes |-> <<>>, edges |-> <<>>]
    ELSE [tag |-> "Ok", nodes |-> g.nodes, edges |-> g.edges]

\* Visitor::visit_map on a map that holds both fields once.
visit_map(map) ==
    [nodes |-> map.nodes, edges |-> map.edges,
     empty_edge_slots |-> Default.empty_edge_slots,
     empty_node_slots |-> Default.empty_node_slots]

(***************************************************************************)
(* Building a graph from a list of declarations, as the graph DSL expands  *)
(* it: one add_node per node in the order written, then one connect call   *)
(* per edge in the order written, each unwrapped.                          *)
(***************************************************************************)
\* expand_nodes: `let key = graph.add_node(value);` for every node.
RECURSIVE expand_nodes(_, _)
expand_nodes(g, values) ==
    IF values = <<>> THEN g
    ELSE expand_nodes(add_node(g, values[1]), Tail(values))

\* expand_edges: `graph.connect_nodes_with_weight(a, b, w).unwrap();` for
\* every edge <<a, b, w>>.  ok turns FALSE where the unwrap panics.
RECURSIVE expand_edges(_, _)
expand_edges(built, edge_list) ==
    IF edge_list = <<>> \/ ~built.ok THEN built
    ELSE LET a == edge_list[1][1]
             b == edge_list[1][2]
             weight == edge_list[1][3]
         IN IF ConnectConflicts(built.graph, a, b) # {}
            THEN [built EXCEPT !.ok = FALSE]
            ELSE expand_edges([ok |-> TRUE,
                               graph |-> insert_edge(built.graph, a, b, weight)],
                              Tail(edge_list))

\* The graph the DSL builds from the node payloads and the edges
\* <<a, b, weight>>, a and b being positions in the node list from 0.
graph(values, edge_list) ==
    expand_edges([ok |-> TRUE, graph |-> expand_nodes(Default, values)],
                 edge_list)

\* The members of a set of numbers in ascending order.
RECURSIVE Ascending(_)
Ascending(S) ==
    IF S = {} THEN <<>>
    ELSE LET least == CHOOSE x \in S : \A y \in S : x <= y
         IN <<least>> \o Ascending(S \ {least})

\* The declarations an arena holds: the payloads of the alive nodes of g in
\* slot order, and the alive edges of g in slot order with their endpoints
\* as positions in that list.
DeclaredNodes(g) ==
    LET ids == Ascending(AliveNodes(g))
    IN [i \in DOMAIN ids |-> g.nodes[ids[i] + 1].value]

Position(g, n) == Cardinality({m \in AliveNodes(g) : m < n})

DeclaredEdges(g) ==
    LET ids == Ascending(AliveEdges(g))
    IN [i \in DOMAIN ids |->
           <<Position(g, g.edges[ids[i] + 1].node_a),
             Position(g, g.edges[ids[i] + 1].node_b),
             g.edges[ids[i] + 1].weight>>]

(***************************************************************************)
(* Kruskal's algorithm (mst/kruskal.rs).  The run keeps the output graph   *)
(* mst, the map updated_node_ids from source node ids to output node ids,  *)
(* and whether it has panicked.  A HashSet is iterated in an order the     *)
(* program does not choose, so the cycle test yields the set of the        *)
(* results it can have and a run yields the set of the states it can end   *)
(* in.                                                                     *)
(***************************************************************************)
\* slice::sort_by_key(weight), stable: the ids by weight, the ids of equal
\* weight in the order they had.
RECURSIVE sort_by_key(_, _)
sort_by_key(ids, es) ==
    IF ids = <<>> THEN <<>>
    ELSE LET i == CHOOSE i \in DOMAIN ids :
                      /\ \A j \in DOMAIN ids :
                             es[ids[i] + 1].weight <= es[ids[j] + 1].weight
                      /\ \A j \in 1..(i - 1) :
                             es[ids[j] + 1].weight # es[ids[i] + 1].weight
             rest == [k \in 1..(Len(ids) - 1) |->
                         IF k < i THEN ids[k] ELSE ids[k + 1]]
         IN <<ids[i]>> \o sort_by_key(rest, es)

\* The ids of all edge slots, tombstoned ones too, sorted by weight.
get_edges_sorted_by_weight(g) ==
    sort_by_key([i \in 1..Len(g.edges) |-> i - 1], g.edges)

\* The node of the target for a node of the source: the one the map holds,
\* or a new node with a clone of the payload.  Indexing a slot that does not
\* exist and value() on a slot without payload panic.
target_node_or_copy(self, target, node, node_if_already_copied) ==
    IF node \in DOMAIN node_if_already_copied
    THEN [panic |-> FALSE, target |-> target,
          id |-> node_if_already_copied[node], created |-> FALSE]
    ELSE IF node \notin NodeIds(self) \/ self.nodes[node + 1].value = None
    THEN [panic |-> TRUE, target |-> target, id |-> USIZE_MAX,
          created |-> FALSE]
    ELSE [panic |-> FALSE,
          target |-> add_node(target, self.nodes[node + 1].value),
          id |-> add_node_id(target), created |-> TRUE]

\* tag is "Ok", "Err" (the target already connects the two nodes) or
\* "Panic"; created holds the pairs source id :> target id of the nodes
\* that were copied.
copy_edge_and_referenced_nodes(self, target, edge_id, node_if_already_copied) ==
    LET edge == self.edges[edge_id + 1]
        a == target_node_or_copy(self, target, edge.node_a,
                                 node_if_already_copied)
        b == target_node_or_copy(self, a.target, edge.node_b,
                                 node_if_already_copied)
    IN IF a.panic \/ b.panic
       THEN [tag |-> "Panic", target |-> target, created |-> <<>>]
       ELSE IF ConnectConflicts(b.target, a.id, b.id) # {}
       THEN [tag |-> "Err", target |-> b.target, created |-> <<>>]
       ELSE [tag |-> "Ok",
             target |-> insert_edge(b.target, a.id, b.id, edge.weight),
             created |->
                 (IF a.created THEN <<<<edge.node_a, a.id>>>> ELSE <<>>) \o
                 (IF b.created THEN <<<<edge.node_b, b.id>>>> ELSE <<>>)]

\* HashMap::insert of the pairs in turn.
RECURSIVE insert_all(_, _)
insert_all(map, pairs) ==
    IF pairs = <<>> THEN map
    ELSE insert_all([n \in DOMAIN map \cup {pairs[1][1]} |->
                        IF n = pairs[1][1] THEN pairs[1][2] ELSE map[n]],
                    Tail(pairs))

\* copy_edge_and_nodes: the copy is unwrapped.
copy_edge_and_nodes(from, run, edge_id) ==
    LET copied == copy_edge_and_referenced_nodes(from, run.mst, edge_id,
                                                 run.updated_node_ids)
    IN IF copied.tag # "Ok"
       THEN [run EXCEPT !.panic = TRUE]
       ELSE [run EXCEPT !.mst = copied.target,
                        !.updated_node_ids = insert_all(@, copied.created)]

\* cycle::would_adding_edge_cause_cycle_inner and its loop over the
\* incident set of the node: the set of the [found, visited] it can end
\* with, one for every order in which the set can be iterated.
RECURSIVE would_adding_edge_cause_cycle_inner(_, _, _, _)
RECURSIVE cycle_for_loop(_, _, _, _, _)
would_adding_edge_cause_cycle_inner(g, node, target, visited) ==
    IF node \in visited THEN {[found |-> FALSE, visited |-> visited]}
    ELSE IF node = target
    THEN {[found |-> TRUE, visited |-> visited \cup {node}]}
    ELSE UNION {cycle_for_loop(g, order, node, target, visited \cup {node}) :
                   order \in Orders(g.nodes[node + 1].edges)}

cycle_for_loop(g, order, node, target, visited) ==
    IF order = <<>> THEN {[found |-> FALSE, visited |-> visited]}
    ELSE LET edge == g.edges[Head(order) + 1]
             next == IF edge.node_a = node THEN edge.node_b ELSE edge.node_a
         IN UNION {IF r.found THEN {r}
                   ELSE cycle_for_loop(g, Tail(order), node, target, r.visited) :
                      r \in would_adding_edge_cause_cycle_inner(g, next, target,
                                                                visited)}

\* would_adding_edge_cause_cycle that never finds a path.
would_adding_edge_cause_cycle_never(g, node_a, node_b) == {FALSE}

\* The values would_adding_edge_cause_cycle can return.
would_adding_edge_cause_cycle(g, node_a, node_b) ==
    {r.found : r \in would_adding_edge_cause_cycle_inner(g, node_a, node_b, {})}

\* maybe_copy_edge that copies without asking for a cycle.
maybe_copy_edge_always_copies(from, run, og_index) ==
    IF run.panic THEN {run} ELSE {copy_edge_and_nodes(from, run, og_index)}

\* maybe_copy_edge: the runs the run can become.
maybe_copy_edge(from, run, og_index) ==
    LET edge == from.edges[og_index + 1] IN
    IF run.panic THEN {run}
    ELSE IF run.mst.nodes = <<>>
    THEN {copy_edge_and_nodes(from, run, og_index)}
    ELSE IF \/ edge.node_a \notin DOMAIN run.updated_node_ids
            \/ edge.node_b \notin DOMAIN run.updated_node_ids
    THEN {copy_edge_and_nodes(from, run, og_index)}
    ELSE {IF cycle THEN run ELSE copy_edge_and_nodes(from, run, og_index) :
             cycle \in would_adding_edge_cause_cycle(
                           run.mst,
                           run.updated_node_ids[edge.node_a],
                           run.updated_node_ids[edge.node_b])}

\* The for loop of kruskal_find_mst over the sorted edges.
RECURSIVE kruskal_for_loop(_, _, _)
kruskal_for_loop(from, run, sorted) ==
    IF sorted = <<>> THEN {run}
    ELSE UNION {kruskal_for_loop(from, next, Tail(sorted)) :
                   next \in maybe_copy_edge(from, run, Head(sorted))}

\* kruskal_find_mst that returns Some of the output graph even when it is
\* empty.
kruskal_returns_always_some(run) ==
    IF run.panic THEN [tag |-> "Panic", mst |-> Default]
    ELSE [tag |-> "Some", mst |-> run.mst]

\* What kruskal_find_mst returns at the end of a run.
kruskal_returns(run) ==
    IF run.panic THEN [tag |-> "Panic", mst |-> Default]
    ELSE IF number_of_nodes(run.mst) = 0 THEN [tag |-> "None", mst |-> Default]
    ELSE [tag |-> "Some", mst |-> run.mst]

\* kruskal_find_mst that takes the edges in slot order.
kruskal_find_mst_unsorted(self) ==
    {kruskal_returns(run) :
        run \in kruskal_for_loop(
                    self,
                    [mst |-> Default, updated_node_ids |-> <<>>, panic |-> FALSE],
                    [i \in 1..Len(self.edges) |-> i - 1])}

\* The values kruskal_find_mst can return.
kruskal_find_mst(self) ==
    {kruskal_returns(run) :
        run \in kruskal_for_loop(
                    self,
                    [mst |-> Default, updated_node_ids |-> <<>>, panic |-> FALSE],
                    sort_by_key(get_edges_sorted_by_weight(self), self.edges))}

\* group_same_weights_and_sort: the alive edge ids in slot order, grouped
\* by weight in the order the weights first occur, then the groups sorted by
\* weight.  A group of one id is a Single, a longer one a Many.
RECURSIVE group_loop(_, _, _)
group_loop(g, index, target) ==
    IF index >= Len(g.edges) THEN target
    ELSE IF index \in Range(g.empty_edge_slots)
    THEN group_loop(g, index + 1, target)
    ELSE LET weight == g.edges[index + 1].weight
             found == {k \in DOMAIN target :
                          g.edges[target[k][1] + 1].weight = weight}
         IN IF found # {}
            THEN group_loop(g, index + 1,
                            [target EXCEPT ![CHOOSE k \in found : TRUE] =
                                               Append(@, index)])
            ELSE group_loop(g, index + 1, Append(target, <<index>>))

\* target.sort_by_key that leaves the groups in the order they were found.
sort_groups_keeps_order(groups, es) == groups

RECURSIVE sort_groups(_, _)
sort_groups(groups, es) ==
    IF groups = <<>> THEN <<>>
    ELSE LET i == CHOOSE i \in DOMAIN groups :
                      \A j \in DOMAIN groups :
                          \/ es[groups[i][1] + 1].weight < es[groups[j][1] + 1].weight
                          \/ /\ es[groups[i][1] + 1].weight = es[groups[j][1] + 1].weight
                             /\ i <= j
             rest == [k \in 1..(Len(groups) - 1) |->
                         IF k < i THEN groups[k] ELSE groups[k + 1]]
         IN <<groups[i]>> \o sort_groups(rest, es)

group_same_weights_and_sort(g) == sort_groups(group_loop(g, 0, <<>>), g.edges)

\* permutations that yields the sequence as it is and nothing else.
permutations_first_only(vec) == <<vec>>

\* Itertools::permutations(len): the orderings of a sequence, in
\* lexicographic order of the positions.
RECURSIVE permutations(_)
RECURSIVE permutations_from(_, _)
permutations(vec) ==
    IF Len(vec) <= 1 THEN <<vec>> ELSE permutations_from(vec, 1)

permutations_from(vec, i) ==
    IF i > Len(vec) THEN <<>>
    ELSE LET rest == [k \in 1..(Len(vec) - 1) |->
                         IF k < i THEN vec[k] ELSE vec[k + 1]]
             tails == permutations(rest)
         IN [k \in DOMAIN tails |-> <<vec[i]>> \o tails[k]]
            \o permutations_from(vec, i + 1)

\* The end of recursive_find_all_msts: the output graph is pushed unless it
\* is empty or, when duplicates are removed, msts.contains(&mst).
push_mst(found, run, remove_duplicates) ==
    IF run.panic THEN [found EXCEPT !.panic = TRUE]
    ELSE IF number_of_nodes(run.mst) = 0 THEN found
    ELSE IF remove_duplicates /\ \E i \in DOMAIN found.msts :
                                    eq(found.msts[i], run.mst)
    THEN found
    ELSE [found EXCEPT !.msts = Append(@, run.mst)]

\* recursive_find_all_msts from the first of `groups` on, and its loop over
\* the orderings of a Many: the values of msts it can end with.
RECURSIVE recursive_find_all_msts(_, _, _, _, _)
RECURSIVE orderings_loop(_, _, _, _, _, _)
recursive_find_all_msts(self, run, groups, remove_duplicates, found) ==
    IF found.panic \/ run.panic THEN {[found EXCEPT !.panic = TRUE]}
    ELSE IF groups = <<>> THEN {push_mst(found, run, remove_duplicates)}
    ELSE IF Len(Head(groups)) = 1
    THEN UNION {recursive_find_all_msts(self, next, Tail(groups),
                                        remove_duplicates, found) :
                   next \in maybe_copy_edge(self, run, Head(groups)[1])}
    ELSE orderings_loop(self, run, permutations(Head(groups)), Tail(groups),
                        remove_duplicates, found)

orderings_loop(self, run, orderings, groups, remove_duplicates, found) ==
    IF orderings = <<>> \/ found.panic THEN {found}
    ELSE UNION {UNION {orderings_loop(self, run, Tail(orderings), groups,
                                      remove_duplicates, more) :
                          more \in recursive_find_all_msts(
                                       self, variant, groups,
                                       remove_duplicates, found)} :
                   variant \in kruskal_for_loop(self, run, Head(orderings))}

\* The values find_all_msts(remove_duplicates) can return.
find_all_msts(self, remove_duplicates) ==
    recursive_find_all_msts(
        self, [mst |-> Default, updated_node_ids |-> <<>>, panic |-> FALSE],
        group_same_weights_and_sort(self), remove_duplicates,
        [panic |-> FALSE, msts |-> <<>>])

\* tests: example_from_video(), the payloads 'A'..'G' as 1..7.
example_from_video ==
    graph(<<1, 2, 3, 4, 5, 6, 7>>,
          << <<0, 1, 2>>, <<0, 2, 3>>, <<0, 3, 3>>,
             <<1, 2, 4>>, <<1, 4, 3>>,
             <<2, 3, 5>>, <<2, 4, 1>>,
             <<3, 5, 7>>,
             <<4, 5, 8>>,
             <<5, 6, 9>> >>).graph

\* get_node: self.nodes.get(id.0), the slot when there is one.
get_node(g, id) ==
    IF id < Len(g.nodes)
    THEN [tag |-> "Some", node |-> g.nodes[id + 1]]
    ELSE [tag |-> "None", node |-> Node_clear]

(***************************************************************************)
(* Search.  A predicate F: Fn(&T) -> bool is the set of the payloads it    *)
(* accepts.  The incident set of a node is a HashSet, so dfs has one       *)
(* outcome for every order in which the sets can be iterated.              *)
(***************************************************************************)
\* self.empty_node_slots.contains(&node_id) that is never true.
dfs_doesnt_exist_never(g, node_id) == FALSE

\* dfs_inner: self.empty_node_slots.contains(&node_id)
dfs_doesnt_exist(g, node_id) == node_id \in Range(g.empty_node_slots)

\* The other endpoint that stays where it is.
dfs_next_stays(g, edge, node) == node

\* dfs_inner: the endpoint of the edge the search goes to from node.
dfs_next(g, edge, node) ==
    IF g.edges[edge + 1].node_a = node
    THEN g.edges[edge + 1].node_b
    ELSE g.edges[edge + 1].node_a

\* path.pop() that leaves the path as it is.
path_pop_keeps(path) == path

\* dfs_inner: path.pop()
path_pop(path) == SubSeq(path, 1, Len(path) - 1)

\* dfs_inner and its loop over the incident set: the [found, panic, visited,
\* path] it can end with.  visited[node] faults for a node past the slots and
\* value() for a slot without payload.
RECURSIVE dfs_inner(_, _, _, _, _)
RECURSIVE dfs_for_loop(_, _, _, _, _, _)
dfs_inner(g, node, visited, path, f) ==
    IF node >= Len(g.nodes)
    THEN {[found |-> FALSE, panic |-> TRUE, visited |-> visited, path |-> path]}
    ELSE IF node \in visited
    THEN {[found |-> FALSE, panic |-> FALSE, visited |-> visited, path |-> path]}
    ELSE IF dfs_doesnt_exist(g, node)
    THEN {[found |-> FALSE, panic |-> FALSE, visited |-> visited, path |-> path]}
    ELSE IF g.nodes[node + 1].value = None
    THEN {[found |-> FALSE, panic |-> TRUE, visited |-> visited \cup {node},
           path |-> Append(path, node)]}
    ELSE IF g.nodes[node + 1].value \in f
    THEN {[found |-> TRUE, panic |-> FALSE, visited |-> visited \cup {node},
           path |-> Append(path, node)]}
    ELSE UNION {dfs_for_loop(g, order, node, visited \cup {node},
                             Append(path, node), f) :
                   order \in Orders(g.nodes[node + 1].edges)}

dfs_for_loop(g, order, node, visited, path, f) ==
    IF order = <<>>
    THEN {[found |-> FALSE, panic |-> FALSE, visited |-> visited,
           path |-> path_pop(path)]}
    ELSE UNION {IF r.found \/ r.panic THEN {r}
                ELSE dfs_for_loop(g, Tail(order), node, r.visited, r.path, f) :
                   r \in dfs_inner(g, dfs_next(g, Head(order), node), visited,
                                   path, f)}

\* The values dfs(f) can return.
dfs(g, f) ==
    {IF r.panic THEN [tag |-> "Panic", path |-> <<>>]
     ELSE IF r.found THEN [tag |-> "Some", path |-> r.path]
     ELSE [tag |-> "None", path |-> <<>>] :
        r \in dfs_inner(g, 0, {}, <<>>, f)}

\* The graph of tests::test_searches, the payloads "Data 1".."Data 9" as
\* 1..9.
test_searches ==
    graph(<<1, 2, 3, 4, 5, 6, 7, 8, 9>>,
          << <<0, 1, 0>>, <<0, 2, 0>>, <<1, 3, 0>>, <<1, 4, 0>>,
             <<2, 5, 0>>, <<2, 6, 0>>, <<3, 7, 0>>, <<3, 8, 0>> >>).graph

\* tests: the graph of find_for_class_assignment_9, the payloads 'A'..'F'
\* as 1..6.
class_assignment_9 ==
    graph(<<1, 2, 3, 4, 5, 6>>,
          << <<2, 1, 1>>, <<0, 1, 2>>, <<0, 3, 1>>, <<3, 2, 2>>,
             <<2, 4, 3>>, <<4, 5, 3>>, <<5, 2, 3>> >>).graph

(***************************************************************************)
(* The state machine: a caller that owns one graph and calls the public    *)
(* operations with ids of alive nodes and edges.  `last` holds the call    *)
(* that has just returned: its name, the ids (or the payload) it was       *)
(* given, what it returned, how many edges it removed with the node, and   *)
(* what the counting queries returned just before it.  The caller makes    *)
(* its next call after it has dropped that result.                         *)
(***************************************************************************)
Observed(g) == [nn |-> number_of_nodes(g), ne |-> number_of_edges(g),
                ln |-> Len(g.nodes), le |-> Len(g.edges)]

Call(op, a, b, tag, val, d) ==
    [op |-> op, a |-> a, b |-> b, tag |-> tag, val |-> val, d |-> d,
     pre |-> Observed(G)]

\* No call has returned, or its result has been dropped.
Idle == [op |-> "idle", a |-> 0, b |-> 0, tag |-> "Unit", val |-> 0, d |-> 0,
         pre |-> Observed(Default)]

Becomes(g) ==
    /\ nodes' = g.nodes
    /\ edges' = g.edges
    /\ empty_edge_slots' = g.empty_edge_slots
    /\ empty_node_slots' = g.empty_node_slots

Init ==
    /\ nodes = <<>>
    /\ edges = <<>>
    /\ empty_edge_slots = <<>>
    /\ empty_node_slots = <<>>
    /\ last = Idle

\* add_node(value)
AddNode(value) ==
    /\ empty_node_slots # <<>> \/ Len(nodes) < MaxNodes
    /\ Becomes(add_node(G, value))
    /\ last' = Call("add_node", value, 0, "Id", add_node_id(G), 0)

\* The body of connect_nodes_with_weight(a, b, weight), called as `op`.
ConnectBody(op, a, b, weight) ==
    LET conflicts == ConnectConflicts(G, a, b) IN
    IF conflicts # {}
    THEN \E edge_id \in conflicts :
            /\ UNCHANGED <<nodes, edges, empty_edge_slots, empty_node_slots>>
            /\ last' = Call(op, a, b, "Err", edge_id, 0)
    ELSE /\ empty_edge_slots # <<>> \/ Len(edges) < MaxEdges
         /\ Becomes(insert_edge(G, a, b, weight))
         /\ last' = Call(op, a, b, "Ok", new_edge_id(G), 0)

\* connect_nodes_with_weight(a, b, weight)
ConnectNodesWithWeight(a, b, weight) ==
    ConnectBody("connect_nodes_with_weight", a, b, weight)

\* connect_nodes(a, b)
ConnectNodes(a, b) == ConnectBody("connect_nodes", a, b, 0)

\* remove_edge(edge)
RemoveEdge(edge) ==
    /\ Becomes(remove_edge(G, edge))
    /\ last' = Call("remove_edge", edge, 0, "Unit", 0, 0)

\* remove_node(node)
RemoveNode(node) ==
    \E order \in Orders(nodes[node + 1].edges) :
        /\ Becomes(remove_node(G, node, order))
        /\ last' = Call("remove_node", node, 0,
                        IF remove_node_returns(G, node, order) = None
                        THEN "None" ELSE "Some",
                        remove_node_returns(G, node, order),
                        Len(order))

\* remove_dead_values()
RemoveDeadValues ==
    /\ Becomes(remove_dead_values(G))
    /\ last' = Call("remove_dead_values", 0, 0, "Unit", 0, 0)

\* serialize(): the caller keeps whether it failed.
Serialize ==
    /\ UNCHANGED <<nodes, edges, empty_edge_slots, empty_node_slots>>
    /\ last' = Call("serialize", 0, 0, serialize(G).tag, 0, 0)

\* The caller serializes the graph and replaces it by what deserialize
\* makes of the output.
Deserialize ==
    /\ serialize(G).tag = "Ok"
    /\ Becomes(visit_map(serialize(G)))
    /\ last' = Call("deserialize", 0, 0, "Ok", 0, 0)

\* The caller drops the value the last call returned.
DropResult ==
    /\ last # Idle
    /\ last' = Idle
    /\ UNCHANGED <<nodes, edges, empty_edge_slots, empty_node_slots>>

Next ==
    \/ last = Idle /\ \E value \in Values : AddNode(value)
    \/ last = Idle /\ \E a, b \in AliveNodes(G) : \E weight \in Weights :
          ConnectNodesWithWeight(a, b, weight)
    \/ last = Idle /\ \E a, b \in AliveNodes(G) : ConnectNodes(a, b)
    \/ last = Idle /\ \E edge \in AliveEdges(G) : RemoveEdge(edge)
    \/ last = Idle /\ \E node \in AliveNodes(G) : RemoveNode(node)
    \/ last = Idle /\ RemoveDeadValues
    \/ DropResult

Spec == Init /\ [][Next]_vars

\* A caller that draws the payloads from Payloads, so that graphs with
\* pairwise-distinct payloads and graphs with repeated payloads both occur.
NextPayloads ==
    \/ last = Idle /\ \E value \in Payloads : AddNode(value)
    \/ last = Idle /\ \E a, b \in AliveNodes(G) : \E weight \in Weights :
          ConnectNodesWithWeight(a, b, weight)
    \/ last = Idle /\ \E edge \in AliveEdges(G) : RemoveEdge(edge)
    \/ last = Idle /\ \E node \in AliveNodes(G) : RemoveNode(node)
    \/ last = Idle /\ RemoveDeadValues
    \/ last = Idle /\ Serialize
    \/ last = Idle /\ Deserialize
    \/ DropResult

SpecPayloads == Init /\ [][NextPayloads]_vars

\* One `let key = graph.add_node(value);` of a DSL expansion; the nodes come
\* before the edges and no payload is written twice.
DeclareNode(value) ==
    /\ edges = <<>>
    /\ \A n \in AliveNodes(G) : nodes[n + 1].value # value
    /\ Becomes(add_node(G, value))
    /\ last' = Call("add_node", value, 0, "Id", add_node_id(G), 0)

\* One `graph.connect_nodes_with_weight(a, b, weight).unwrap();` of a DSL
\* expansion; the program ends where the unwrap panics.
DeclareEdge(a, b, weight) ==
    /\ Len(edges) < MaxDeclaredEdges
    /\ ConnectConflicts(G, a, b) = {}
    /\ Becomes(insert_edge(G, a, b, weight))
    /\ last' = Call("connect_nodes_with_weight", a, b, "Ok", new_edge_id(G), 0)

NextDsl ==
    \/ last = Idle /\ \E value \in DeclaredPayloads : DeclareNode(value)
    \/ last = Idle /\ \E a, b \in AliveNodes(G) :
          \E weight \in DeclaredWeights : DeclareEdge(a, b, weight)
    \/ DropResult

SpecDsl == Init /\ [][NextDsl]_vars

\* A caller that writes a source graph, nodes first, every edge once from
\* the node written earlier to the node written later, or takes the example
\* of the tests, and calls kruskal_find_mst on it.
SourceNode ==
    /\ edges = <<>>
    /\ Len(nodes) < MaxSourceNodes
    /\ Becomes(add_node(G, Len(nodes) + 1))
    /\ last' = Call("add_node", Len(nodes) + 1, 0, "Id", add_node_id(G), 0)

SourceEdge(a, b, weight) ==
    /\ a < b
    /\ Len(edges) < MaxSourceEdges
    /\ ConnectConflicts(G, a, b) = {}
    /\ Becomes(insert_edge(G, a, b, weight))
    /\ last' = Call("connect_nodes_with_weight", a, b, "Ok", new_edge_id(G), 0)

ExampleFromVideo ==
    /\ nodes = <<>>
    /\ Becomes(example_from_video)
    /\ last' = Call("example_from_video", 0, 0, "Unit", 0, 0)

\* kruskal_find_mst(): the caller keeps whether it got a graph, and the
\* numbers of nodes and of edges of the graph it got.
KruskalFindMst ==
    \E r \in kruskal_find_mst(G) :
        /\ UNCHANGED <<nodes, edges, empty_edge_slots, empty_node_slots>>
        /\ last' = Call("kruskal_find_mst", 0, 0, r.tag,
                        number_of_nodes(r.mst), number_of_edges(r.mst))

ClassAssignment9 ==
    /\ nodes = <<>>
    /\ Becomes(class_assignment_9)
    /\ last' = Call("class_assignment_9", 0, 0, "Unit", 0, 0)

\* find_all_msts(remove_duplicates): the caller keeps how many graphs it
\* got.
FindAllMsts(remove_duplicates) ==
    \E found \in find_all_msts(G, remove_duplicates) :
        /\ UNCHANGED <<nodes, edges, empty_edge_slots, empty_node_slots>>
        /\ last' = Call("find_all_msts", IF remove_duplicates THEN 1 ELSE 0, 0,
                        IF found.panic THEN "Panic" ELSE "Vec",
                        Len(found.msts), 0)

NextKruskal ==
    \/ last = Idle /\ SourceNode
    \/ last = Idle /\ \E a, b \in AliveNodes(G) : \E weight \in SourceWeights :
          SourceEdge(a, b, weight)
    \/ last = Idle /\ ExampleFromVideo
    \/ last = Idle /\ KruskalFindMst
    \/ last = Idle /\ ClassAssignment9
    \/ last = Idle /\ \E remove_duplicates \in BOOLEAN :
          FindAllMsts(remove_duplicates)
    \/ DropResult

SpecKruskal == Init /\ [][NextKruskal]_vars

\* A caller that adds nodes, each with the least payload no alive node
\* carries, connects them, removes edges and nodes without compacting, and
\* calls kruskal_find_mst on what it has.
ArenaNode ==
    /\ number_of_nodes(G) < MaxArenaNodes
    /\ LET value == CHOOSE v \in ArenaPayloads :
                        /\ \A n \in AliveNodes(G) : nodes[n + 1].value # v
                        /\ \A u \in ArenaPayloads :
                               u < v => \E n \in AliveNodes(G) :
                                            nodes[n + 1].value = u
       IN /\ Becomes(add_node(G, value))
          /\ last' = Call("add_node", value, 0, "Id", add_node_id(G), 0)

ArenaEdge(a, b, weight) ==
    /\ a < b
    /\ number_of_edges(G) < MaxArenaEdges
    /\ ConnectConflicts(G, a, b) = {}
    /\ Becomes(insert_edge(G, a, b, weight))
    /\ last' = Call("connect_nodes_with_weight", a, b, "Ok", new_edge_id(G), 0)

\* get_node(id): the caller keeps the payload of the node it got.
GetNode(id) ==
    /\ UNCHANGED <<nodes, edges, empty_edge_slots, empty_node_slots>>
    /\ last' = Call("get_node", id, 0, get_node(G, id).tag,
                    get_node(G, id).node.value, 0)

NextArena ==
    \/ last = Idle /\ ArenaNode
    \/ last = Idle /\ \E a, b \in AliveNodes(G) : \E weight \in ArenaWeights :
          ArenaEdge(a, b, weight)
    \/ last = Idle /\ \E edge \in AliveEdges(G) : RemoveEdge(edge)
    \/ last = Idle /\ \E node \in AliveNodes(G) : RemoveNode(node)
    \/ last = Idle /\ KruskalFindMst
    \/ last = Idle /\ \E id \in 0..Len(nodes) : GetNode(id)
    \/ DropResult

SpecArena == Init /\ [][NextArena]_vars

\* A caller that adds nodes, each with the least payload no alive node
\* carries, connects and removes them without compacting, and searches for
\* a payload of at least lo.
SearchNode ==
    /\ empty_node_slots # <<>> \/ Len(nodes) < MaxSearchNodes
    /\ LET value == CHOOSE v \in SearchPayloads :
                        /\ \A n \in AliveNodes(G) : nodes[n + 1].value # v
                        /\ \A u \in SearchPayloads :
                               u < v => \E n \in AliveNodes(G) :
                                            nodes[n + 1].value = u
       IN /\ Becomes(add_node(G, value))
          /\ last' = Call("add_node", value, 0, "Id", add_node_id(G), 0)

SearchEdge(a, b) ==
    /\ empty_edge_slots # <<>> \/ Len(edges) < MaxSearchEdges
    /\ ConnectConflicts(G, a, b) = {}
    /\ Becomes(insert_edge(G, a, b, 0))
    /\ last' = Call("connect_nodes", a, b, "Ok", new_edge_id(G), 0)

\* dfs(|x| *x >= lo): the caller keeps how long the path is.
Dfs(lo) ==
    \E r \in dfs(G, lo..MaxSearchNodes) :
        /\ UNCHANGED <<nodes, edges, empty_edge_slots, empty_node_slots>>
        /\ last' = Call("dfs", lo, MaxSearchNodes, r.tag, Len(r.path), 0)

NextSearch ==
    \/ last = Idle /\ SearchNode
    \/ last = Idle /\ \E a, b \in AliveNodes(G) : SearchEdge(a, b)
    \/ last = Idle /\ \E edge \in AliveEdges(G) : RemoveEdge(edge)
    \/ last = Idle /\ \E node \in AliveNodes(G) : RemoveNode(node)
    \/ last = Idle /\ \E lo \in SearchPayloads : Dfs(lo)
    \/ DropResult

SpecSearch == Init /\ [][NextSearch]_vars

\* A caller that adds, connects and removes nodes and edges without
\* compacting, and that removes two nodes and adds two in a row.
ReuseNode(value) ==
    /\ empty_node_slots # <<>> \/ Len(nodes) < MaxReuseNodes
    /\ Becomes(add_node(G, value))
    /\ last' = Call("add_node", value, 0, "Id", add_node_id(G), 0)

ReuseEdge(a, b) ==
    /\ empty_edge_slots # <<>> \/ Len(edges) < MaxReuseEdges
    /\ ConnectConflicts(G, a, b) = {}
    /\ Becomes(insert_edge(G, a, b, 0))
    /\ last' = Call("connect_nodes", a, b, "Ok", new_edge_id(G), 0)

\* remove_node(x); remove_node(y); add_node(value); add_node(value): the
\* caller keeps the two ids add_node returned.
RemoveTwoAddTwo(x, y, value) ==
    /\ x # y
    /\ \E order_x \in Orders(nodes[x + 1].edges) :
          LET without_x == remove_node(G, x, order_x) IN
          \E order_y \in Orders(without_x.nodes[y + 1].edges) :
              LET without_y == remove_node(without_x, y, order_y)
                  with_first == add_node(without_y, value)
              IN /\ Becomes(add_node(with_first, value))
                 /\ last' = Call("remove_remove_add_add", x, y, "Ids",
                                 add_node_id(without_y),
                                 add_node_id(with_first))

NextReuse ==
    \/ last = Idle /\ \E value \in ReusePayloads : ReuseNode(value)
    \/ last = Idle /\ \E a, b \in AliveNodes(G) : ReuseEdge(a, b)
    \/ last = Idle /\ \E edge \in AliveEdges(G) : RemoveEdge(edge)
    \/ last = Idle /\ \E node \in AliveNodes(G) : RemoveNode(node)
    \/ last = Idle /\ \E x, y \in AliveNodes(G) : \E value \in ReusePayloads :
          RemoveTwoAddTwo(x, y, value)
    \/ DropResult

SpecReuse == Init /\ [][NextReuse]_vars

\* The caller calls kruskal_find_mst(), find_all_msts(false) and
\* find_all_msts(true) on the graph and keeps the three results.
CompareMsts ==
    \E r \in kruskal_find_mst(G) :
        \E all \in find_all_msts(G, FALSE) :
            \E unique \in find_all_msts(G, TRUE) :
                /\ UNCHANGED <<nodes, edges, empty_edge_slots, empty_node_slots>>
                /\ last' = Call("compare_msts", 0, 0, "Results",
                                [kruskal |-> r, all |-> all, unique |-> unique],
                                0)

\* A caller that writes a loop-free source graph, or takes the example of
\* the tests, and compares the results of the three calls.
NextCompare ==
    \/ last = Idle /\ SourceNode
    \/ last = Idle /\ \E a, b \in AliveNodes(G) : \E weight \in SourceWeights :
          SourceEdge(a, b, weight)
    \/ last = Idle /\ ClassAssignment9
    \/ last = Idle /\ CompareMsts
    \/ DropResult

SpecCompare == Init /\ [][NextCompare]_vars

\* A caller that writes a source graph, nodes first, with edges from a
\* node to itself or to a node written later, removes edges again, and
\* compares the results of the three calls.
LoopNode ==
    /\ edges = <<>>
    /\ Len(nodes) < MaxLoopNodes
    /\ Becomes(add_node(G, Len(nodes) + 1))
    /\ last' = Call("add_node", Len(nodes) + 1, 0, "Id", add_node_id(G), 0)

LoopEdge(a, b, weight) ==
    /\ a <= b
    /\ empty_edge_slots # <<>> \/ Len(edges) < MaxLoopEdges
    /\ ConnectConflicts(G, a, b) = {}
    /\ Becomes(insert_edge(G, a, b, weight))
    /\ last' = Call("connect_nodes_with_weight", a, b, "Ok", new_edge_id(G), 0)

NextLoops ==
    \/ last = Idle /\ LoopNode
    \/ last = Idle /\ \E a, b \in AliveNodes(G) : \E weight \in LoopWeights :
          LoopEdge(a, b, weight)
    \/ last = Idle /\ \E edge \in AliveEdges(G) : RemoveEdge(edge)
    \/ last = Idle /\ CompareMsts
    \/ DropResult

SpecLoops == Init /\ [][NextLoops]_vars

(***************************************************************************)
(* The graph with named nodes (src/src/graph.rs, node.rs, edge.rs) and its  *)
(* integrity checks (src/src/graph/check.rs).  A node is a name and an      *)
(* incident set; a removed node keeps the empty name.                      *)
(***************************************************************************)
Graph_Node_new(name) == [name |-> name, edges |-> {}]

Graph_Node_clear == [name |-> "", edges |-> {}]

\* Graph::add_node: the id it returns, and the graph after it.
Graph_add_node_id(g) ==
    IF g.empty_node_slots # <<>> THEN Head(g.empty_node_slots) ELSE Len(g.nodes)

Graph_add_node(g, name) ==
    IF g.empty_node_slots # <<>>
    THEN [g EXCEPT !.empty_node_slots = Tail(@),
                   !.nodes[Head(g.empty_node_slots) + 1] = Graph_Node_new(name)]
    ELSE [g EXCEPT !.nodes = Append(@, Graph_Node_new(name))]

\* Graph::connect_nodes_with_weight: no scan, no look at the free queue of
\* the nodes; it indexes nodes[a] and nodes[b].
Graph_connect_id(g) ==
    IF g.empty_edge_slots # <<>> THEN Head(g.empty_edge_slots) ELSE Len(g.edges)

Graph_connect_nodes_with_weight(g, a, b, weight) ==
    LET id == Graph_connect_id(g)
        es == IF g.empty_edge_slots # <<>>
              THEN [g.edges EXCEPT ![id + 1] = Edge_new(weight, a, b)]
              ELSE Append(g.edges, Edge_new(weight, a, b))
        n1 == [g.nodes EXCEPT ![a + 1].edges = @ \cup {id}]
        n2 == [n1 EXCEPT ![b + 1].edges = @ \cup {id}]
    IN [g EXCEPT !.edges = es,
                 !.empty_edge_slots = IF @ # <<>> THEN Tail(@) ELSE @,
                 !.nodes = n2]

\* Graph::remove_edge indexes the edge and both of its endpoints: it faults
\* unless they are slots of the Vecs.
Graph_remove_edge_faults(g, edge) ==
    \/ edge >= Len(g.edges)
    \/ g.edges[edge + 1].node_a >= Len(g.nodes)
    \/ g.edges[edge + 1].node_b >= Len(g.nodes)

Graph_remove_edge(g, edge) ==
    LET node_a == g.edges[edge + 1].node_a
        node_b == g.edges[edge + 1].node_b
        n1 == [g.nodes EXCEPT ![node_a + 1].edges = @ \ {edge}]
        n2 == [n1 EXCEPT ![node_b + 1].edges = @ \ {edge}]
    IN [g EXCEPT !.nodes = n2,
                 !.edges[edge + 1] = Edge_clear,
                 !.empty_edge_slots = Append(@, edge)]

RECURSIVE Graph_remove_edges_in_order(_, _)
Graph_remove_edges_in_order(g, order) ==
    IF order = <<>> THEN g
    ELSE Graph_remove_edges_in_order(Graph_remove_edge(g, Head(order)),
                                     Tail(order))

\* Graph::remove_node: takes the incident set, removes its edges in the
\* set's iteration order, clears the node and queues its slot.
Graph_remove_node(g, node, order) ==
    LET taken == [g EXCEPT !.nodes[node + 1].edges = {}]
        g1 == Graph_remove_edges_in_order(taken, order)
    IN [g1 EXCEPT !.nodes[node + 1] = Graph_Node_clear,
                  !.empty_node_slots = Append(@, node)]

\* valid_values!: does_edge_id_exist / does_node_id_exist
does_edge_id_exist(g, id) ==
    IF id \in Range(g.empty_edge_slots) THEN FALSE ELSE id < Len(g.edges)

\* does_node_id_exist that looks at the length of the Vec only.
does_node_id_exist_ignores_queue(g, id) == id < Len(g.nodes)

does_node_id_exist(g, id) ==
    IF id \in Range(g.empty_node_slots) THEN FALSE ELSE id < Len(g.nodes)

\* is_valid_node_inner: Iterator::any over the incident set.
is_valid_node_inner(g, node) ==
    \E edge_id \in node.edges : does_edge_id_exist(g, edge_id)

is_valid_edge_inner(g, edge) ==
    does_node_id_exist(g, edge.node_a) /\ does_node_id_exist(g, edge.node_b)

\* valid_values!: the loop of invalid_edges over the slots from `id` on.
RECURSIVE invalid_edges_loop(_, _)
invalid_edges_loop(g, id) ==
    IF id >= Len(g.edges) THEN <<>>
    ELSE IF id \in Range(g.empty_edge_slots) THEN invalid_edges_loop(g, id + 1)
    ELSE IF ~is_valid_edge_inner(g, g.edges[id + 1])
         THEN <<id>> \o invalid_edges_loop(g, id + 1)
         ELSE invalid_edges_loop(g, id + 1)

invalid_edges(g) == invalid_edges_loop(g, 0)

\* valid_values!: has_invalid_edges returns at the first slot that is not
\* queued and fails the check.
has_invalid_edges(g) ==
    \E id \in EdgeIds(g) :
        /\ id \notin Range(g.empty_edge_slots)
        /\ ~is_valid_edge_inner(g, g.edges[id + 1])

RECURSIVE invalid_nodes_loop(_, _)
invalid_nodes_loop(g, id) ==
    IF id >= Len(g.nodes) THEN <<>>
    ELSE IF id \in Range(g.empty_node_slots) THEN invalid_nodes_loop(g, id + 1)
    ELSE IF ~is_valid_node_inner(g, g.nodes[id + 1])
         THEN <<id>> \o invalid_nodes_loop(g, id + 1)
         ELSE invalid_nodes_loop(g, id + 1)

invalid_nodes(g) == invalid_nodes_loop(g, 0)

has_invalid_nodes(g) ==
    \E id \in NodeIds(g) :
        /\ id \notin Range(g.empty_node_slots)
        /\ ~is_valid_node_inner(g, g.nodes[id + 1])

\* A caller of the graph with named nodes.  It adds nodes, connects node
\* slots (removed ones too), removes edges and nodes where the call does
\* not fault, writes ids into a node's incident set and into an edge's
\* node_a as the tests of check.rs do, and runs the four checks.
CheckNode ==
    /\ empty_node_slots # <<>> \/ Len(nodes) < MaxCheckNodes
    /\ Becomes(Graph_add_node(G, "A"))
    /\ last' = Call("add_node", 0, 0, "Id", Graph_add_node_id(G), 0)

CheckEdge(a, b) ==
    /\ empty_edge_slots # <<>> \/ Len(edges) < MaxCheckEdges
    /\ Becomes(Graph_connect_nodes_with_weight(G, a, b, 0))
    /\ last' = Call("connect_nodes", a, b, "Id", Graph_connect_id(G), 0)

CheckRemoveEdge(edge) ==
    /\ edge \notin Range(empty_edge_slots)
    /\ ~Graph_remove_edge_faults(G, edge)
    /\ Becomes(Graph_remove_edge(G, edge))
    /\ last' = Call("remove_edge", edge, 0, "Unit", 0, 0)

CheckRemoveNode(node) ==
    /\ node \notin Range(empty_node_slots)
    /\ \A edge \in nodes[node + 1].edges :
          edge \notin Range(empty_edge_slots) /\ ~Graph_remove_edge_faults(G, edge)
    /\ \E order \in Orders(nodes[node + 1].edges) :
          /\ Becomes(Graph_remove_node(G, node, order))
          /\ last' = Call("remove_node", node, 0, "Unit", 0, Len(order))

\* graph[node].edges.insert(EdgeID(edge))
InsertIncident(node, edge) ==
    /\ node \notin Range(empty_node_slots)
    /\ nodes' = [nodes EXCEPT ![node + 1].edges = @ \cup {edge}]
    /\ UNCHANGED <<edges, empty_edge_slots, empty_node_slots>>
    /\ last' = Call("insert_incident", node, edge, "Unit", 0, 0)

\* graph[edge].node_a = NodeID(node)
SetNodeA(edge, node) ==
    /\ edge \notin Range(empty_edge_slots)
    /\ edges' = [edges EXCEPT ![edge + 1].node_a = node]
    /\ UNCHANGED <<nodes, empty_edge_slots, empty_node_slots>>
    /\ last' = Call("set_node_a", edge, node, "Unit", 0, 0)

\* invalid_nodes(), has_invalid_nodes(), invalid_edges(), has_invalid_edges()
CheckGraph ==
    /\ UNCHANGED <<nodes, edges, empty_edge_slots, empty_node_slots>>
    /\ last' = Call("check", 0, 0, "Results",
                    [invalid_nodes |-> invalid_nodes(G),
                     has_invalid_nodes |-> has_invalid_nodes(G),
                     invalid_edges |-> invalid_edges(G),
                     has_invalid_edges |-> has_invalid_edges(G)], 0)

NextCheck ==
    \/ last = Idle /\ CheckNode
    \/ last = Idle /\ \E a, b \in NodeIds(G) : CheckEdge(a, b)
    \/ last = Idle /\ \E edge \in EdgeIds(G) : CheckRemoveEdge(edge)
    \/ last = Idle /\ \E node \in NodeIds(G) : CheckRemoveNode(node)
    \/ last = Idle /\ \E node \in NodeIds(G) : \E edge \in 0..MaxCheckEdges :
          InsertIncident(node, edge)
    \/ last = Idle /\ \E edge \in EdgeIds(G) : \E node \in 0..MaxCheckNodes :
          SetNodeA(edge, node)
    \/ last = Idle /\ CheckGraph
    \/ DropResult

SpecCheck == Init /\ [][NextCheck]_vars

\* A caller that keeps the ids of removed nodes and passes them on: it adds
\* nodes, connects any two node slots, and removes any node slot, removed
\* ones too.
StaleNode ==
    /\ empty_node_slots # <<>> \/ Len(nodes) < MaxStaleNodes
    /\ Becomes(add_node(G, 1))
    /\ last' = Call("add_node", 1, 0, "Id", add_node_id(G), 0)

StaleEdge(a, b) ==
    LET conflicts == ConnectConflicts(G, a, b) IN
    IF conflicts # {}
    THEN \E edge_id \in conflicts :
            /\ UNCHANGED <<nodes, edges, empty_edge_slots, empty_node_slots>>
            /\ last' = Call("connect_nodes_with_weight", a, b, "Err", edge_id, 0)
    ELSE /\ empty_edge_slots # <<>> \/ Len(edges) < MaxStaleEdges
         /\ Becomes(insert_edge(G, a, b, 0))
         /\ last' = Call("connect_nodes_with_weight", a, b, "Ok",
                         new_edge_id(G), 0)

StaleRemoveNode(node) ==
    /\ Len(empty_node_slots) < MaxStaleQueue
    /\ RemoveNode(node)

NextStale ==
    \/ last = Idle /\ StaleNode
    \/ last = Idle /\ \E a, b \in NodeIds(G) : StaleEdge(a, b)
    \/ last = Idle /\ \E node \in NodeIds(G) : StaleRemoveNode(node)
    \/ DropResult

SpecStale == Init /\ [][NextStale]_vars

(***************************************************************************)
(* Properties.                                                             *)
(***************************************************************************)
\* The graph after the step.
GNext == [nodes |-> nodes', edges |-> edges',
          empty_edge_slots |-> empty_edge_slots',
          empty_node_slots |-> empty_node_slots']

Endpoints(g, e) == {g.edges[e + 1].node_a, g.edges[e + 1].node_b}

NoDuplicates(q) == Cardinality(Range(q)) = Len(q)

CrossReferenceIntegrity(g) ==
    /\ \A e \in AliveEdges(g) :
          \A n \in Endpoints(g, e) :
              n \in AliveNodes(g) /\ e \in g.nodes[n + 1].edges
    /\ \A n \in AliveNodes(g) :
          \A e \in g.nodes[n + 1].edges :
              e \in AliveEdges(g) /\ n \in Endpoints(g, e)

\* C1: in every reachable state, both endpoints of every alive edge are
\* alive nodes whose incident set contains the edge's id, and every id in an
\* alive node's incident set is an alive edge that has the node as an
\* endpoint.
C1_CrossReferenceIntegrity == CrossReferenceIntegrity(G)

\* A compaction has dropped an edge slot and the graph still has an alive
\* edge between two distinct nodes.
C1_Witness ==
    /\ last.op = "remove_dead_values"
    /\ Len(edges) < last.pre.le
    /\ \E e \in AliveEdges(G) : Cardinality(Endpoints(G, e)) = 2

\* The alive nodes form a cycle: there are at least three, each has exactly
\* two incident edges, and these lead to two other nodes.
IsCycle(g) ==
    /\ Cardinality(AliveNodes(g)) >= 3
    /\ \A n \in AliveNodes(g) :
          /\ Cardinality(g.nodes[n + 1].edges) = 2
          /\ \A e \in g.nodes[n + 1].edges : Cardinality(Endpoints(g, e)) = 2

C3_AtMostOneEdgePerPair ==
    \A e1, e2 \in AliveEdges(G) :
        (e1 # e2 /\ Cardinality(Endpoints(G, e1)) = 2)
            => Endpoints(G, e1) # Endpoints(G, e2)

\* A connect of two distinct nodes was turned down because of an edge that
\* had been created in the other argument order.
C3_Witness ==
    /\ last.op = "connect_nodes_with_weight"
    /\ last.tag = "Err"
    /\ last.a # last.b
    /\ edges[last.val + 1].node_a = last.b
    /\ edges[last.val + 1].node_b = last.a

IsConnect(op) == op \in {"connect_nodes", "connect_nodes_with_weight"}

SelfLoops(g, a) == {e \in AliveEdges(g) : Endpoints(g, e) = {a}}

\* C4: a connect of two nodes that an alive edge e already joins (in either
\* argument order) returns NodesAlreadyConnected(e) and leaves the node
\* slots, the edge slots, the incident sets and both free queues as they
\* were.
C4_DuplicateConnectRejected ==
    [][IsConnect(last'.op) =>
          \A e \in AliveEdges(G) :
              Endpoints(G, e) = {last'.a, last'.b}
                  => (last'.tag = "Err" /\ last'.val = e /\ GNext = G)]_vars

\* C5: connect_nodes_with_weight(a, a, w) fails only if a already has an
\* alive self-loop, and then carries that loop's id; if a has no self-loop
\* the call succeeds and creates one edge from a to a whose id is in a's
\* incident set.
C5_SelfLoopConnect ==
    [][(IsConnect(last'.op) /\ last'.a = last'.b) =>
          /\ last'.tag = "Err" => last'.val \in SelfLoops(G, last'.a)
          /\ SelfLoops(G, last'.a) = {} =>
                /\ last'.tag = "Ok"
                /\ last'.val \in SelfLoops(GNext, last'.a)
                /\ nodes'[last'.a + 1].edges = nodes[last'.a + 1].edges \cup {last'.val}
                /\ number_of_edges(GNext) = number_of_edges(G) + 1]_vars

\* C6: is_node_connected_to_itself(a) is true exactly when the alive node a
\* has an alive edge whose two endpoints are both a.
C6_ConnectedToItself ==
    \A a \in AliveNodes(G) :
        is_node_connected_to_itself(G, a) <=> SelfLoops(G, a) # {}

\* C7: in every reachable state and for all alive nodes a # b,
\* is_node_connected_to_node(a, b) = is_node_connected_to_node(b, a), both
\* are true exactly when an alive edge has the endpoints a and b, and b
\* occurs in connected_nodes(a) exactly when a occurs in connected_nodes(b).
C7_Undirected ==
    LET g == G
        alive == AliveNodes(g)
        alive_edges == AliveEdges(g)
    IN \A a, b \in alive :
        a # b =>
            LET a_to_b == is_node_connected_to_node(g, a, b)
                from_a == connected_nodes(g, a)
                from_b == connected_nodes(g, b)
            IN /\ a_to_b = is_node_connected_to_node(g, b, a)
               /\ a_to_b <=> \E e \in alive_edges : Endpoints(g, e) = {a, b}
               /\ (\E e \in DOMAIN from_a : from_a[e] = b)
                     <=> (\E e \in DOMAIN from_b : from_b[e] = a)

\* Two alive nodes a and b joined by an edge that was created as
\* connect(b, a), where a also has a self-loop.
C7_Witness ==
    \E a, b \in AliveNodes(G) :
        /\ a # b
        /\ SelfLoops(G, a) # {}
        /\ \E e \in nodes[a + 1].edges :
              edges[e + 1].node_a = b /\ edges[e + 1].node_b = a

\* C8: remove_node(n) on an alive node n with payload v and d incident edges
\* returns Some(v), tombstones n and each of its d incident edges, takes
\* each of these edges out of the other endpoint's incident set, lowers
\* number_of_nodes() by 1 and number_of_edges() by d, and leaves the lengths
\* of the node and edge sequences as they were.
C8_RemoveNode ==
    [][last'.op = "remove_node" =>
          LET n == last'.a
              incident == nodes[n + 1].edges
          IN /\ last'.tag = "Some"
             /\ last'.val = nodes[n + 1].value
             /\ n \notin AliveNodes(GNext)
             /\ n \in Range(empty_node_slots')
             /\ nodes'[n + 1].edges = {}
             /\ \A e \in incident :
                   /\ e \notin AliveEdges(GNext)
                   /\ e \in Range(empty_edge_slots')
                   /\ \A m \in Endpoints(G, e) : e \notin nodes'[m + 1].edges
             /\ number_of_nodes(GNext) = number_of_nodes(G) - 1
             /\ number_of_edges(GNext) = number_of_edges(G) - Cardinality(incident)
             /\ Len(nodes') = Len(nodes)
             /\ Len(edges') = Len(edges)]_vars

\* remove_node has removed a node with two incident edges, a self-loop and
\* an edge to another node, which stays alive.
C8_Witness ==
    /\ last.op = "remove_node"
    /\ last.tag = "Some"
    /\ last.d = 2
    /\ number_of_nodes(G) = 1
    /\ number_of_edges(G) = last.pre.ne - 2
    /\ Len(edges) = last.pre.le

\* The edges the step's call removes.
RemovedEdges ==
    IF last'.op = "remove_edge" THEN {last'.a}
    ELSE IF last'.op = "remove_node" THEN nodes[last'.a + 1].edges
    ELSE {}

\* The nodes the step's call may change the incident set of: the endpoints
\* of the edge it adds and of the edges it removes.
TouchedNodes ==
    (IF IsConnect(last'.op) /\ last'.tag = "Ok" THEN {last'.a, last'.b} ELSE {})
        \cup UNION {Endpoints(G, e) : e \in RemovedEdges}

\* C9: over add_node, connect (successful or failed), remove_edge and
\* remove_node, every node that was alive and is not the removed node keeps
\* its id and payload, every edge that was alive and is not removed by the
\* call keeps its id, weight and both endpoints, and only the incident sets
\* of the endpoints of an added or removed edge change.
C9_IdStability ==
    [][last'.op \in {"add_node", "connect_nodes", "connect_nodes_with_weight",
                     "remove_edge", "remove_node"} =>
          /\ \A n \in AliveNodes(G) :
                ~(last'.op = "remove_node" /\ n = last'.a)
                    => /\ n \in AliveNodes(GNext)
                       /\ nodes'[n + 1].value = nodes[n + 1].value
          /\ \A e \in AliveEdges(G) \ RemovedEdges :
                /\ e \in AliveEdges(GNext)
                /\ edges'[e + 1] = edges[e + 1]
          /\ \A n \in NodeIds(G) :
                nodes'[n + 1].edges # nodes[n + 1].edges => n \in TouchedNodes]_vars

\* add_node has reused a tombstoned slot while another node with an alive
\* edge exists.
C9_Witness ==
    /\ last.op = "add_node"
    /\ last.val < last.pre.ln
    /\ \E e \in AliveEdges(G) : last.val \notin Endpoints(G, e)

\* C10: after remove_dead_values() neither has_dead_nodes() nor
\* has_dead_edges() holds, the node sequence is as long as number_of_nodes()
\* was and the edge sequence as long as number_of_edges() was, every slot
\* holds an alive entry, and the cross-reference integrity holds with the
\* new ids.
C10_CompactionPostCondition ==
    [][last'.op = "remove_dead_values" =>
          /\ ~has_dead_nodes(GNext)
          /\ ~has_dead_edges(GNext)
          /\ Len(nodes') = number_of_nodes(G)
          /\ Len(edges') = number_of_edges(G)
          /\ AliveNodes(GNext) = NodeIds(GNext)
          /\ AliveEdges(GNext) = EdgeIds(GNext)
          /\ CrossReferenceIntegrity(GNext)]_vars

\* A compaction has dropped the node slot 0 and the edge slot 0, and the
\* node and the edge that had the id 1 are left with the id 0.
C10_Witness ==
    /\ last.op = "remove_dead_values"
    /\ last.pre.ln = 2 /\ last.pre.nn = 1
    /\ last.pre.le = 2 /\ last.pre.ne = 1
    /\ Len(nodes) = 1
    /\ Len(edges) = 1
    /\ Endpoints(G, 0) = {0}

\* How many alive nodes of g carry the payload v.
PayloadCount(g, v) ==
    Cardinality({n \in AliveNodes(g) : g.nodes[n + 1].value = v})

\* An alive edge as (weight, payload of node_a, payload of node_b).
EdgeTriple(g, e) ==
    <<g.edges[e + 1].weight,
      g.nodes[g.edges[e + 1].node_a + 1].value,
      g.nodes[g.edges[e + 1].node_b + 1].value>>

EdgeTriples(g) == {EdgeTriple(g, e) : e \in AliveEdges(g)}

TripleCount(g, t) == Cardinality({e \in AliveEdges(g) : EdgeTriple(g, e) = t})

\* g and h hold the same payloads and the same edges by value, each as
\* often.
SameContent(g, h) ==
    /\ \A v \in Payloads \cup Values : PayloadCount(g, v) = PayloadCount(h, v)
    /\ \A t \in EdgeTriples(g) \cup EdgeTriples(h) :
          TripleCount(g, t) = TripleCount(h, t)

\* No two alive nodes of g carry the same payload.
DistinctPayloads(g) ==
    \A n, m \in AliveNodes(g) :
        n # m => g.nodes[n + 1].value # g.nodes[m + 1].value

\* C11 as stated: remove_dead_values() keeps the alive payloads and the
\* alive edges taken as (weight, payload, payload), and the graph before and
\* the graph after are equal in both directions, for every reachable graph.
C11_CompactionPreservesContent ==
    [][last'.op = "remove_dead_values" =>
          /\ SameContent(G, GNext)
          /\ eq(G, GNext)
          /\ eq(GNext, G)]_vars

\* C11 amended: remove_dead_values() keeps the alive payloads and the alive
\* edges taken as (weight, payload, payload) for every reachable graph, and
\* the graph before and the graph after are equal in both directions when
\* the alive payloads are pairwise distinct.
C11_CompactionPreservesDistinct ==
    [][last'.op = "remove_dead_values" =>
          /\ SameContent(G, GNext)
          /\ DistinctPayloads(G) => eq(G, GNext) /\ eq(GNext, G)]_vars

\* A compaction has dropped an edge slot and has left two nodes of
\* different payloads with the edge between them at a new id.
C11_Witness ==
    /\ last.op = "remove_dead_values"
    /\ Len(edges) < last.pre.le
    /\ Cardinality(AliveNodes(G)) = 2
    /\ DistinctPayloads(G)
    /\ \E e \in AliveEdges(G) : Cardinality(Endpoints(G, e)) = 2

\* The graph the alive nodes and edges of g declare, built afresh.
Rebuilt(g) == graph(DeclaredNodes(g), DeclaredEdges(g))

C13_CompactionIdempotent ==
    [][last'.op = "remove_dead_values" =>
          /\ (empty_node_slots = <<>> /\ empty_edge_slots = <<>>) => GNext = G
          /\ remove_dead_values(GNext) = GNext]_vars

\* A compaction has run on a graph with nodes and an edge and without
\* tombstones, as a second compaction in a row does.
C13_Witness ==
    /\ last.op = "remove_dead_values"
    /\ last.pre.ln = last.pre.nn
    /\ last.pre.le = last.pre.ne
    /\ Len(nodes) = 2
    /\ Len(edges) >= 1

Reordered(g, node_order, edge_order) ==
    LET values == DeclaredNodes(g)
        edge_list == DeclaredEdges(g)
        places == [k \in DOMAIN node_order |->
                     (CHOOSE i \in DOMAIN node_order : node_order[i] = k) - 1]
        new_values == [i \in DOMAIN node_order |-> values[node_order[i]]]
        new_edge_list == [i \in DOMAIN edge_order |->
                            LET edge == edge_list[edge_order[i]]
                            IN <<places[edge[1] + 1], places[edge[2] + 1],
                                 edge[3]>>]
    IN graph(new_values, new_edge_list)

NodeOrders(g) == Orders(1..Cardinality(AliveNodes(g)))
EdgeOrders(g) == Orders(1..Cardinality(AliveEdges(g)))

\* C15: a graph with pairwise-distinct payloads equals itself and its
\* clone, and it equals, in both directions, the graph the same nodes and
\* the same weighted edges build when they are written in any other order.
\* Every graph is looked at once, when the call that made it has returned
\* and its result is dropped.
C15_EqualityReflexiveCloneReorder ==
    (last = Idle /\ DistinctPayloads(G)) =>
        LET g == G IN
        /\ eq(g, g)
        /\ eq(g, clone(g)) /\ eq(clone(g), g)
        /\ \A node_order \in NodeOrders(g), edge_order \in EdgeOrders(g) :
              LET other == Reordered(g, node_order, edge_order)
              IN other.ok => eq(g, other.graph) /\ eq(other.graph, g)

\* Two nodes of different payloads and two edges, and the declarations
\* written with the nodes swapped and the edges swapped build a graph.
C15_Witness ==
    /\ last = Idle
    /\ DistinctPayloads(G)
    /\ Cardinality(AliveNodes(G)) = 2
    /\ Cardinality(AliveEdges(G)) = 2
    /\ Reordered(G, <<2, 1>>, <<2, 1>>).ok
    /\ Reordered(G, <<2, 1>>, <<2, 1>>).graph # G
    /\ eq(G, Reordered(G, <<2, 1>>, <<2, 1>>).graph)

\* The declarations of g with another weight on the edge written at place i.
Reweighted(g, i, weight) ==
    graph(DeclaredNodes(g),
          [DeclaredEdges(g) EXCEPT ![i] = <<@[1], @[2], weight>>])

\* C16: two graphs with pairwise-distinct payloads that differ in nothing
\* but the weight of one edge are not equal, in either direction.
C16_EqualityComparesWeights ==
    (last = Idle /\ DistinctPayloads(G)) =>
        \A i \in 1..Cardinality(AliveEdges(G)) :
            \A weight \in DeclaredWeights \ {DeclaredEdges(G)[i][3]} :
                LET other == Reweighted(G, i, weight)
                IN other.ok => ~eq(G, other.graph) /\ ~eq(other.graph, G)

\* The declarations of g with the edge at place i written the other way
\* round: connect(b, a, w) for connect(a, b, w).
Swapped(g, i) ==
    graph(DeclaredNodes(g),
          [DeclaredEdges(g) EXCEPT ![i] = <<@[2], @[1], @[3]>>])

\* C17: two graphs with pairwise-distinct payloads that differ in nothing
\* but the order in which the two endpoints of one edge were given to
\* connect are equal, in both directions.
C17_EqualityIgnoresOrientation ==
    (last = Idle /\ DistinctPayloads(G)) =>
        \A i \in 1..Cardinality(AliveEdges(G)) :
            LET other == Swapped(G, i)
            IN other.ok => eq(G, other.graph) /\ eq(other.graph, G)

\* The alive nodes of g that the edges of E link to the nodes of S, S
\* included.
RECURSIVE Reach(_, _, _)
Reach(g, E, S) ==
    LET more == {n \in AliveNodes(g) \ S :
                    \E e \in E : n \in Endpoints(g, e) /\ Endpoints(g, e) \cap S # {}}
    IN IF more = {} THEN S ELSE Reach(g, E, S \cup more)

\* The edges of E link all alive nodes of g.
Connects(g, E) ==
    \/ AliveNodes(g) = {}
    \/ \E n \in AliveNodes(g) : Reach(g, E, {n}) = AliveNodes(g)

RECURSIVE TotalWeight(_, _)
TotalWeight(g, E) ==
    IF E = {} THEN 0
    ELSE LET e == CHOOSE e \in E : TRUE
         IN g.edges[e + 1].weight + TotalWeight(g, E \ {e})

\* The spanning trees of g, as sets of edge ids.
SpanningTrees(g) ==
    {T \in SUBSET AliveEdges(g) :
        /\ Cardinality(T) = Cardinality(AliveNodes(g)) - 1
        /\ Connects(g, T)}

\* What C18 asks of a source graph.
KruskalSource(g) ==
    /\ Cardinality(AliveNodes(g)) >= 2
    /\ \A e \in AliveEdges(g) : Cardinality(Endpoints(g, e)) = 2
    /\ ~has_dead_nodes(g) /\ ~has_dead_edges(g)
    /\ Connects(g, AliveEdges(g))

\* mst is a minimum spanning tree of g, by payloads.
IsMinimumSpanningTree(mst, g) ==
    /\ number_of_nodes(mst) = number_of_nodes(g)
    /\ \A n \in AliveNodes(g) :
          Cardinality({m \in AliveNodes(mst) :
                          mst.nodes[m + 1].value = g.nodes[n + 1].value}) = 1
    /\ number_of_edges(mst) = number_of_nodes(g) - 1
    /\ Connects(mst, AliveEdges(mst))
    /\ \A e \in AliveEdges(mst) : ~Connects(mst, AliveEdges(mst) \ {e})
    /\ \A T \in SpanningTrees(g) :
          TotalWeight(mst, AliveEdges(mst)) <= TotalWeight(g, T)
    /\ \A e \in AliveEdges(mst) :
          \E f \in AliveEdges(g) : EdgeTriple(g, f) = EdgeTriple(mst, e)

\* C18: for a connected source graph with at least two nodes, without
\* self-loops and without tombstones, kruskal_find_mst returns Some graph
\* with one node per source payload and one edge less than nodes, connected
\* and free of cycles, made of edges of the source, and of the least total
\* weight a spanning tree of the source has.
C18_KruskalMinimality ==
    [][(last'.op = "kruskal_find_mst" /\ KruskalSource(G)) =>
          \A r \in kruskal_find_mst(G) :
              /\ last'.tag = "Some"
              /\ r.tag = "Some"
              /\ IsMinimumSpanningTree(r.mst, G)]_vars

\* kruskal_find_mst has returned a tree of two edges for a triangle whose
\* first edge is heavier than the other two.
C18_Witness ==
    /\ last.op = "kruskal_find_mst"
    /\ last.tag = "Some"
    /\ last.val = 3 /\ last.d = 2
    /\ number_of_edges(G) = 3
    /\ edges[1].weight > edges[2].weight
    /\ edges[1].weight > edges[3].weight

\* C19 as stated: on the example of seven nodes and ten edges
\* kruskal_find_mst returns a tree with six edges of total weight 19.
C19_ExampleTotal19 ==
    [][(last'.op = "kruskal_find_mst" /\ G = example_from_video) =>
          \A r \in kruskal_find_mst(G) :
              /\ r.tag = "Some"
              /\ number_of_edges(r.mst) = 6
              /\ TotalWeight(r.mst, AliveEdges(r.mst)) = 19]_vars

\* C19 amended: on the example of seven nodes and ten edges
\* kruskal_find_mst returns a tree with six edges of total weight 25, the
\* edges c-e, a-b, a-c, a-d, d-f and f-g, and no spanning tree of the
\* example weighs less.
C19_ExampleTotal25 ==
    [][(last'.op = "kruskal_find_mst" /\ G = example_from_video) =>
          \A r \in kruskal_find_mst(G) :
              /\ r.tag = "Some"
              /\ last'.d = 6
              /\ number_of_edges(r.mst) = 6
              /\ TotalWeight(r.mst, AliveEdges(r.mst)) = 25
              /\ EdgeTriples(r.mst) =
                     {<<1, 3, 5>>, <<2, 1, 2>>, <<3, 1, 3>>, <<3, 1, 4>>,
                      <<7, 4, 6>>, <<9, 6, 7>>}
              /\ \A T \in SpanningTrees(G) : TotalWeight(G, T) >= 25]_vars

\* kruskal_find_mst has returned a graph of seven nodes and six edges for
\* the example.
C19_Witness ==
    /\ last.op = "kruskal_find_mst"
    /\ G = example_from_video
    /\ last.tag = "Some"
    /\ last.val = 7
    /\ last.d = 6

\* C20: kruskal_find_mst returns None exactly when the source graph has no
\* alive node, and Some graph for every source graph with an alive node,
\* one whose nodes have no edges included.
C20_NoneOnlyWithoutNodes ==
    [][last'.op = "kruskal_find_mst" =>
          /\ last'.tag = "None" <=> number_of_nodes(G) = 0
          /\ number_of_nodes(G) >= 1 => last'.tag = "Some"]_vars

\* The sets of alive nodes that the alive edges of g link with each other.
Components(g) == {Reach(g, AliveEdges(g), {n}) : n \in AliveNodes(g)}

\* g has no tombstones, no self-loop, and at least two components that
\* hold an edge.
DisconnectedSource(g) ==
    /\ ~has_dead_nodes(g) /\ ~has_dead_edges(g)
    /\ \A e \in AliveEdges(g) : Cardinality(Endpoints(g, e)) = 2
    /\ Cardinality({C \in Components(g) : Cardinality(C) >= 2}) >= 2

\* C21: for a source graph of two or more components that each hold an
\* edge, kruskal_find_mst returns Some graph that is connected, a single
\* tree and not a forest of several components.
C21_SingleTreeOfOneComponent ==
    [][(last'.op = "kruskal_find_mst" /\ DisconnectedSource(G)) =>
          \A r \in kruskal_find_mst(G) :
              /\ r.tag = "Some"
              /\ Connects(r.mst, AliveEdges(r.mst))
              /\ Cardinality(Components(r.mst)) = 1]_vars

\* C22: on a source graph with tombstoned edge slots kruskal_find_mst does
\* not panic, and what it returns is what it returns on the same graph
\* after remove_dead_values(): None both times, or Some graphs that are
\* equal in both directions.
C22_KruskalSkipsTombstonedEdges ==
    [][(last'.op = "kruskal_find_mst" /\ has_dead_edges(G)) =>
          /\ last'.tag # "Panic"
          /\ \A r \in kruskal_find_mst(G) :
                \A c \in kruskal_find_mst(remove_dead_values(G)) :
                    /\ r.tag = c.tag
                    /\ eq(r.mst, c.mst) /\ eq(c.mst, r.mst)]_vars

\* The minimum spanning trees of g, as sets of edge ids.
MinimumSpanningTrees(g) ==
    {T \in SpanningTrees(g) :
        \A U \in SpanningTrees(g) : TotalWeight(g, T) <= TotalWeight(g, U)}

\* found holds the minimum spanning trees of g, each once.
ExactlyTheMinimumSpanningTrees(found, g) ==
    /\ ~found.panic
    /\ \A i \in DOMAIN found.msts : IsMinimumSpanningTree(found.msts[i], g)
    /\ \A i, j \in DOMAIN found.msts :
          i # j => /\ ~eq(found.msts[i], found.msts[j])
                   /\ EdgeTriples(found.msts[i]) # EdgeTriples(found.msts[j])
    /\ \A T \in MinimumSpanningTrees(g) :
          \E i \in DOMAIN found.msts :
              EdgeTriples(found.msts[i]) = {EdgeTriple(g, e) : e \in T}
    /\ Len(found.msts) = Cardinality(MinimumSpanningTrees(g))

\* g is connected, without self-loops and without tombstones, and has a
\* node.
ConnectedSource(g) ==
    /\ Cardinality(AliveNodes(g)) >= 1
    /\ \A e \in AliveEdges(g) : Cardinality(Endpoints(g, e)) = 2
    /\ ~has_dead_nodes(g) /\ ~has_dead_edges(g)
    /\ Connects(g, AliveEdges(g))

\* C23: for a connected source graph without self-loops and with
\* pairwise-distinct payloads, find_all_msts(true) returns the minimum
\* spanning trees of the source, each exactly once and nothing else; on the
\* class-assignment example these are six trees.
C23_FindAllMstsExact ==
    [][(last'.op = "find_all_msts" /\ last'.a = 1 /\ ConnectedSource(G)) =>
          \A found \in find_all_msts(G, TRUE) :
              /\ ExactlyTheMinimumSpanningTrees(found, G)
              /\ G = class_assignment_9 => Len(found.msts) = 6]_vars

\* The alive nodes that can be reached from node 0 over alive edges.
ReachableFromZero(g) == Reach(g, AliveEdges(g), {0})

\* The predicate of the dfs call that has returned.
Searched == last.a..last.b

\* C24: dfs on a graph whose slot 0 is tombstoned returns None without a
\* fault, whatever alive nodes there are and whether or not one of them
\* satisfies the predicate.
C24_DfsTombstonedRoot ==
    (last.op = "dfs" /\ 0 \in Range(empty_node_slots)) =>
        /\ last.tag = "None"
        /\ \A r \in dfs(G, Searched) : r.tag = "None"

C24_Witness ==
    /\ last.op = "dfs" /\ last.tag = "None"
    /\ 0 \in Range(empty_node_slots)
    /\ \E n \in AliveNodes(G) : nodes[n + 1].value \in Searched

\* The alive nodes and edges of g form a tree.
IsTree(g) ==
    /\ AliveNodes(g) # {}
    /\ Cardinality(AliveEdges(g)) = Cardinality(AliveNodes(g)) - 1
    /\ Connects(g, AliveEdges(g))

\* path runs over alive nodes of g, each once, and an alive edge joins each
\* to the next.
IsSimplePath(g, path) ==
    /\ \A i \in DOMAIN path : path[i] \in AliveNodes(g)
    /\ \A i, j \in DOMAIN path : i # j => path[i] # path[j]
    /\ \A i \in 1..(Len(path) - 1) :
          \E e \in AliveEdges(g) : Endpoints(g, e) = {path[i], path[i + 1]}

\* The simple paths of g from node 0 to node `to`.
SimplePathsFromZero(g, to) ==
    {path \in UNION {[1..k -> AliveNodes(g)] :
                        k \in 1..Cardinality(AliveNodes(g))} :
        /\ path[1] = 0 /\ path[Len(path)] = to
        /\ IsSimplePath(g, path)}

\* The paths dfs can return on the graph of tests::test_searches for
\* "Data 9".
test_searches_paths == dfs(test_searches, {9})

\* C25: a path that dfs returns starts with node 0, has no node twice, has
\* an alive edge between each node and the next, and ends in a node whose
\* payload satisfies the predicate while no earlier node's does; on a tree it
\* is the one simple path from node 0 to that node.
C25_DfsPathSound ==
    last.op = "dfs" =>
        /\ \A r \in dfs(G, Searched) :
              r.tag = "Some" =>
                  /\ r.path # <<>> /\ r.path[1] = 0
                  /\ IsSimplePath(G, r.path)
                  /\ nodes[r.path[Len(r.path)] + 1].value \in Searched
                  /\ \A i \in 1..(Len(r.path) - 1) :
                        nodes[r.path[i] + 1].value \notin Searched
                  /\ IsTree(G) =>
                        SimplePathsFromZero(G, r.path[Len(r.path)]) = {r.path}
        /\ test_searches_paths = {[tag |-> "Some", path |-> <<0, 1, 3, 8>>]}

C25_Witness ==
    /\ last.op = "dfs" /\ last.tag = "Some" /\ last.val = 2
    /\ IsTree(G)
    /\ Cardinality(nodes[1].edges) = 2
    /\ nodes[1].value \notin Searched

\* C26: on a graph whose slot 0 is alive, dfs returns a path exactly when
\* an alive node that can be reached from node 0 over alive edges satisfies
\* the predicate, and None otherwise.
C26_DfsComplete ==
    (last.op = "dfs" /\ 0 \in AliveNodes(G)) =>
        LET matches == \E n \in ReachableFromZero(G) :
                           nodes[n + 1].value \in Searched
        IN \A r \in dfs(G, Searched) :
              r.tag = IF matches THEN "Some" ELSE "None"

C26_Witness ==
    /\ last.op = "dfs" /\ last.tag = "None"
    /\ 0 \in AliveNodes(G)
    /\ AliveEdges(G) # {}
    /\ \E n \in AliveNodes(G) : nodes[n + 1].value \in Searched

\* C27: get_node(id) returns None for a tombstoned id and for an id past
\* the slots, and the node with its payload for an alive id.
C27_GetNodeAliveOnly ==
    last.op = "get_node" =>
        IF last.a \in AliveNodes(G)
        THEN last.tag = "Some" /\ last.val = nodes[last.a + 1].value
        ELSE last.tag = "None"

\* add_node takes the front of the node free queue when there is one and a
\* new slot otherwise; the slot holds the payload and no incident edge.
AddNodeFifo ==
    last'.op = "add_node" =>
        /\ IF empty_node_slots # <<>>
           THEN /\ last'.val = Head(empty_node_slots)
                /\ empty_node_slots' = Tail(empty_node_slots)
                /\ Len(nodes') = Len(nodes)
           ELSE /\ last'.val = Len(nodes)
                /\ empty_node_slots' = <<>>
                /\ Len(nodes') = Len(nodes) + 1
        /\ nodes'[last'.val + 1] = [value |-> last'.a, edges |-> {}]

\* A connect that succeeds takes the front of the edge free queue when
\* there is one and a new slot otherwise.
ConnectFifo ==
    (last'.op = "connect_nodes" /\ last'.tag = "Ok") =>
        /\ IF empty_edge_slots # <<>>
           THEN /\ last'.val = Head(empty_edge_slots)
                /\ empty_edge_slots' = Tail(empty_edge_slots)
                /\ Len(edges') = Len(edges)
           ELSE /\ last'.val = Len(edges)
                /\ empty_edge_slots' = <<>>
                /\ Len(edges') = Len(edges) + 1
        /\ edges'[last'.val + 1] = Edge_new(0, last'.a, last'.b)

\* remove_node puts the slot at the back of the node free queue.
RemoveNodeQueues ==
    last'.op = "remove_node" =>
        empty_node_slots' = Append(empty_node_slots, last'.a)

\* The two add_node calls after remove_node(x) and remove_node(y) return x
\* and then y, and the two slots hold the new payload and no incident edge.
ReusedInOrder ==
    /\ last'.val = last'.a /\ last'.d = last'.b
    /\ \E value \in ReusePayloads :
          /\ nodes'[last'.a + 1] = [value |-> value, edges |-> {}]
          /\ nodes'[last'.b + 1] = [value |-> value, edges |-> {}]

RenumberedNode(g, n) == Cardinality({m \in AliveNodes(g) : m < n})
RenumberedEdge(g, e) == Cardinality({d \in AliveEdges(g) : d < e})

CycleFree(m) ==
    \A e \in AliveEdges(m) :
        /\ m.edges[e + 1].node_a # m.edges[e + 1].node_b
        /\ m.edges[e + 1].node_b \notin
               Reach(m, AliveEdges(m) \ {e}, {m.edges[e + 1].node_a})

\* The payloads at the two ends of an edge.
EndpointPayloads(g, e) ==
    {g.nodes[g.edges[e + 1].node_a + 1].value,
     g.nodes[g.edges[e + 1].node_b + 1].value}

\* The alive edges of g that have the weight and the endpoint payloads of
\* the edge e of m.
SourceEdgesOf(m, e, g) ==
    {d \in AliveEdges(g) :
        /\ g.edges[d + 1].weight = m.edges[e + 1].weight
        /\ EndpointPayloads(g, d) = EndpointPayloads(m, e)}

\* The edges of m can be given distinct alive edges of g with their weight
\* and endpoint payloads: every set of edges of m has at least as many
\* candidates as it has members.
EdgesFromSource(m, g) ==
    \A S \in SUBSET AliveEdges(m) :
        Cardinality(UNION {SourceEdgesOf(m, e, g) : e \in S}) >= Cardinality(S)

CycleFreeSubgraph(m, g) == CycleFree(m) /\ EdgesFromSource(m, g)

\* The graphs the caller got from the three calls: the one of
\* kruskal_find_mst, if any, and those of the two lists.
Compared == last.op = "compare_msts"
KruskalReturned == last.val.kruskal.tag = "Some"
ReturnedGraphs ==
    (IF KruskalReturned THEN {last.val.kruskal.mst} ELSE {})
    \cup (IF last.val.all.panic THEN {} ELSE Range(last.val.all.msts))
    \cup (IF last.val.unique.panic THEN {} ELSE Range(last.val.unique.msts))

\* C31: every graph kruskal_find_mst or find_all_msts returns has no cycle,
\* and its edges are copies of distinct alive edges of the source, with the
\* same weight and the same endpoint payloads, whether or not the source is
\* connected.
C31_ResultsAreCycleFreeSubgraphs ==
    Compared => \A m \in ReturnedGraphs : CycleFreeSubgraph(m, G)

C31_Witness ==
    /\ Compared /\ KruskalReturned
    /\ Len(last.val.unique.msts) >= 2
    /\ Cardinality(AliveNodes(G)) = 3
    /\ Cardinality(AliveEdges(G)) = 3

RECURSIVE Factorial(_)
Factorial(k) == IF k <= 1 THEN 1 ELSE k * Factorial(k - 1)

\* The product of k! over the sets of k alive edges of g of one weight.
RECURSIVE ProductOfFactorials(_, _)
ProductOfFactorials(g, E) ==
    IF E = {} THEN 1
    ELSE LET e == CHOOSE e \in E : TRUE
             same == {d \in E : g.edges[d + 1].weight = g.edges[e + 1].weight}
         IN Factorial(Cardinality(same)) * ProductOfFactorials(g, E \ same)

\* short can be had from long by leaving entries out.
RECURSIVE IsSubCollection(_, _)
IsSubCollection(short, long) ==
    IF short = <<>> THEN TRUE
    ELSE IF long = <<>> THEN FALSE
    ELSE IF Head(short) = Head(long)
    THEN IsSubCollection(Tail(short), Tail(long))
    ELSE IsSubCollection(short, Tail(long))

\* g and h are the same tree: the same payloads and the same edges as
\* (weight, payload, payload), each as often.
SameTree(g, h) ==
    /\ \A n \in AliveNodes(g) \cup AliveNodes(h) :
          \A k \in {g, h} :
              n \in AliveNodes(k) =>
                  PayloadCount(g, k.nodes[n + 1].value)
                      = PayloadCount(h, k.nodes[n + 1].value)
    /\ \A t \in EdgeTriples(g) \cup EdgeTriples(h) :
          TripleCount(g, t) = TripleCount(h, t)

\* How many graphs find_all_msts(false) returns on the six-node example.
class_assignment_9_counts ==
    {Len(found.msts) : found \in find_all_msts(class_assignment_9, FALSE)}

C40_OneOutputNodePerSourceNode ==
    Compared =>
        \A m \in ReturnedGraphs :
            /\ \A e \in AliveEdges(m) : m.edges[e + 1].node_a # m.edges[e + 1].node_b
            /\ DistinctPayloads(m)
            /\ number_of_nodes(m) <= number_of_nodes(G)

\* The state predicates of the integrity checks: an id exists when it is a
\* slot of the Vec that is not in the free queue.
CheckedGraph == last.op = "check"

LiveNodeSlots(g) == NodeIds(g) \ Range(g.empty_node_slots)
LiveEdgeSlots(g) == EdgeIds(g) \ Range(g.empty_edge_slots)

DanglingNodes(g) ==
    {n \in LiveNodeSlots(g) : g.nodes[n + 1].edges \ LiveEdgeSlots(g) # {}}

DanglingEdges(g) ==
    {e \in LiveEdgeSlots(g) : Endpoints(g, e) \ LiveNodeSlots(g) # {}}

\* C34: after the node checks have run, has_invalid_nodes() is true exactly
\* when some alive node's incident set holds an edge id that does not exist,
\* and invalid_nodes() lists exactly those nodes, each once.
C34_InvalidNodesAreTheDanglingOnes ==
    CheckedGraph =>
        /\ last.val.has_invalid_nodes <=> (DanglingNodes(G) # {})
        /\ Range(last.val.invalid_nodes) = DanglingNodes(G)
        /\ NoDuplicates(last.val.invalid_nodes)

\* C35: after the edge checks have run, has_invalid_edges() is true exactly
\* when some alive edge has an endpoint that is tombstoned or out of range,
\* invalid_edges() holds exactly the ids of those edges, each once, and no
\* tombstoned edge slot is among them.
C35_InvalidEdgesAreTheDanglingOnes ==
    CheckedGraph =>
        /\ last.val.has_invalid_edges <=> (DanglingEdges(G) # {})
        /\ Range(last.val.invalid_edges) = DanglingEdges(G)
        /\ NoDuplicates(last.val.invalid_edges)
        /\ Range(last.val.invalid_edges) \cap Range(empty_edge_slots) = {}

\* The checks ran on a graph with a tombstoned edge slot, an alive edge with
\* a tombstoned endpoint (reported) and so at least one alive edge slot.
C35_Witness ==
    /\ CheckedGraph
    /\ empty_edge_slots # <<>>
    /\ \E e \in DanglingEdges(G) :
          /\ Endpoints(G, e) \cap Range(empty_node_slots) # {}
          /\ e \in Range(last.val.invalid_edges)
    /\ last.val.has_invalid_edges

\* The graph the first k node declarations of g build, without its edges.
Shortened(g, k) == graph(SubSeq(DeclaredNodes(g), 1, k), <<>>).graph

\* C36: equality is symmetric: a graph and the graph built from the first
\* k of its node declarations (the empty graph for k = 0) compare equal in
\* one direction exactly when they compare equal in the other.
C36_EqualitySymmetric ==
    last = Idle =>
        \A k \in 0..Len(DeclaredNodes(G)) :
            eq(Shortened(G, k), G) <=> eq(G, Shortened(G, k))

\* C37: remove_node on an id whose slot is tombstoned returns None and
\* leaves number_of_nodes() and the free queue of the nodes as they were;
\* after every call no id is twice in that queue, and add_node never returns
\* the id of a node that was alive when it was called.
C37_NoDoubleFree ==
    [][/\ (last'.op = "remove_node" /\ last'.a \notin AliveNodes(G)) =>
              (/\ last'.tag = "None"
               /\ number_of_nodes(GNext) = number_of_nodes(G)
               /\ empty_node_slots' = empty_node_slots)
        /\ NoDuplicates(empty_node_slots')
        /\ (last'.op = "add_node" => last'.val \notin AliveNodes(G))]_vars

\* C38: in every state the caller of stale ids reaches, the endpoints of
\* every alive edge are alive nodes.
C38_AliveEdgesReferenceAliveNodes ==
    \A e \in AliveEdges(G) : Endpoints(G, e) \subseteq AliveNodes(G)

\* C39: dfs on a graph without any node slot returns None; it does not
\* fault.
C39_DfsWithoutSlots ==
    (last.op = "dfs" /\ nodes = <<>>) => last.tag = "None"

====
